---------------------------- MODULE Spec2Model ----------------------------
(***************************************************************************)
(* A model of the jfrs JFR reader: the byte stream and its integer codec,  *)
(* the schema-driven value decoder, the constant pool, the chunk iterator, *)
(* the event iterator and the accessors.                                   *)
(*                                                                         *)
(* Integers.  TLC's integers are 32 bits wide, so a signed 64-bit value is *)
(* carried in full width as nine limbs, least significant first: eight     *)
(* limbs of 7 bits and a ninth of 8 bits (the groups of the variable-      *)
(* length encoding).  Where the program does arithmetic on an i64 (offsets,*)
(* sizes, keys) the limbs are turned into an integer by I64ToInt, which is *)
(* exact for |v| < Sat and saturates outside; the inputs of the            *)
(* specifications keep the values that matter inside that range.           *)
(***************************************************************************)
EXTENDS Integers, Sequences, FiniteSets, TLC

VARIABLES
    \* byte-stream harness (read_i64 applied to an encoded value)
    bsX,        \* the 64-bit value that was encoded (limbs)
    bsStream,   \* the ByteStream: [buf, pos, enc]
    bsResult,   \* the result of the read applied to it
    bsPc,       \* "off" | "ready" | "done"
    \* value-decoder harness (ValueDescriptor::try_new applied to a source)
    vdClass,    \* the class id handed to try_new
    vdStream,   \* the ByteStream it reads
    vdResult,   \* its result
    vdPc,       \* "off" | "ready" | "done"
    \* event iterator (EventIterator over the records of one chunk)
    eiRecs,     \* the records the chunk body was laid out from
    eiChecks,   \* whether the build checks integer overflow (debug profile)
    eiStream,   \* EventIterator.stream: the chunk's bytes, header included
    eiEnd,      \* chunk.header.chunk_body_size()
    eiOffset,   \* EventIterator.offset
    eiAt,       \* the offset at which the call of next() in progress began
    eiPc,       \* "off" | "idle" | "running" | "panicked"
    eiTrace,    \* history: the records visited, [off, size, type]
    eiItems,    \* history: the items next() has returned
    \* accessors (Accessor over a value of a chunk)
    acPool,     \* chunk.constant_pool: <<class_id, constant_index>> -> value
    acValue,    \* Accessor.value
    acLast,     \* the last operation: its name, its receiver and its outcome
    acSteps,    \* how many operations have been applied
    acPc,       \* "off" | "ready" | "panicked"
    \* constant pool construction (the walk over the constant-pool events)
    cpEvents,   \* the constant-pool events the chunk was laid out from
    cpChain,    \* how their deltas are linked: "wf" | "short" | "cycle" | "badtype"
    cpStream,   \* the chunk's bytes
    cpOffset,   \* header.constant_pool_offset
    cpResult,   \* the result of read_constant_pool
    cpPc,       \* "off" | "ready" | "done"
    \* chunk iterator (ChunkIterator over a JfrReader)
    chLayout,   \* the templates the file's chunks were laid out from
    chDamage,   \* what is wrong with the last chunk of the file
    chSkip,     \* ChunkIterator.skip_constant_pool
    chStream,   \* JfrReader.stream: the file
    chStart,    \* JfrReader.chunk_start_position
    chItems,    \* history: the items next() has returned
    chPc,       \* "off" | "iterating"
    \* deserializer (Deserializer over a value of a chunk)
    deValue,    \* Deserializer.value
    deTarget,   \* the type the caller deserializes into
    dePool,     \* chunk.constant_pool
    deResult,   \* the result of T::deserialize
    dePc,       \* "off" | "ready" | "done"
    \* string harness (ByteStream::read_string applied to an encoded string)
    stCase,     \* the string that was encoded: its tag, its value, the integer mode
    stStream,   \* the ByteStream holding the encoding
    stResult,   \* the result of read_string
    stPc,       \* "off" | "ready" | "done"
    \* metadata harness (Metadata::try_new applied to a metadata event)
    mdCase,     \* the element tree that was encoded: what it lacks or has too much
    mdStream,   \* the ByteStream holding the metadata event
    mdResult,   \* the result of Metadata::try_new
    mdPc        \* "off" | "ready" | "done"

bsVars == <<bsX, bsStream, bsResult, bsPc>>

vdVars == <<vdClass, vdStream, vdResult, vdPc>>

eiVars == <<eiRecs, eiChecks, eiStream, eiEnd, eiOffset, eiAt, eiPc, eiTrace, eiItems>>

acVars == <<acPool, acValue, acLast, acSteps, acPc>>

cpVars == <<cpEvents, cpChain, cpStream, cpOffset, cpResult, cpPc>>

chVars == <<chLayout, chDamage, chSkip, chStream, chStart, chItems, chPc>>

deVars == <<deValue, deTarget, dePool, deResult, dePc>>

stVars == <<stCase, stStream, stResult, stPc>>

mdVars == <<mdCase, mdStream, mdResult, mdPc>>

vars == <<bsVars, vdVars, eiVars, acVars, cpVars, chVars, deVars, stVars, mdVars>>

----------------------------------------------------------------------------
(* Results of fallible operations: Result<T> of src/reader/mod.rs.         *)

Ok(v, s) == [ok |-> TRUE, v |-> v, err |-> "none", s |-> s]

Err(e, s) == [ok |-> FALSE, v |-> <<>>, err |-> e, s |-> s]

\* Sequencing.  `CHOOSE the \in {F(r) : r \in {v}} : TRUE` is `let r = v; F(r)`:
\* v is evaluated once and F applied to its value.  With
\* `IF r.ok THEN F(r) ELSE r` for F(r) it is `F(v?)`: an Err is returned as it
\* is, an Ok is handed on.

----------------------------------------------------------------------------
(* ByteStream<T>: the bytes of the source, the cursor and the integer     *)
(* encoding mode.                                                          *)

ByteStream_new(buf) == [buf |-> buf, pos |-> 0, enc |-> "Raw"]

set_int_encoding(s, encoding) == [s EXCEPT !.enc = encoding]

seek(s, position) == [s EXCEPT !.pos = position]

\* read_exact::<N>: N bytes or IoError(UnexpectedEof); on failure the cursor
\* is left at the end of the source.
read_exact(s, n) ==
    IF s.pos + n <= Len(s.buf)
    THEN Ok(SubSeq(s.buf, s.pos + 1, s.pos + n), [s EXCEPT !.pos = s.pos + n])
    ELSE Err("UnexpectedEof", [s EXCEPT !.pos = IF s.pos > Len(s.buf) THEN s.pos ELSE Len(s.buf)])

read_u8(s) == (CHOOSE the \in {IF r.ok THEN Ok(r.v[1], r.s) ELSE r : r \in {read_exact(s, 1)}} : TRUE)

read_i8(s) ==
    (CHOOSE the \in {IF r.ok THEN
        Ok(IF r.v[1] >= 128 THEN r.v[1] - 256 ELSE r.v[1], r.s)
    ELSE r : r \in {read_exact(s, 1)}} : TRUE)

----------------------------------------------------------------------------
(* 64-bit values as limbs.                                                 *)

Sat == 1073741824

I64Zero == <<0, 0, 0, 0, 0, 0, 0, 0, 0>>

LimbWidth(idx) == IF idx = 9 THEN 256 ELSE 128

\* ret + (g << shift of limb idx), on 64 bits, carries propagated and the
\* carry out of bit 63 dropped.
RECURSIVE I64AddAt(_, _, _)
I64AddAt(l, idx, g) ==
    IF g = 0 \/ idx > 9 THEN l
    ELSE LET t == l[idx] + g
         IN  I64AddAt([l EXCEPT ![idx] = t % LimbWidth(idx)], idx + 1, t \div LimbWidth(idx))

Pow128(k) == CASE k = 0 -> 1 [] k = 1 -> 128 [] k = 2 -> 16384 [] k = 3 -> 2097152 [] OTHER -> 268435456

\* The integer a 64-bit value stands for: exact when |v| < Sat.
I64ToInt(l) ==
    LET neg == l[9] >= 128
        m   == [i \in 1..9 |-> IF neg THEN LimbWidth(i) - 1 - l[i] ELSE l[i]]
        fits == m[9] = 0 /\ m[8] = 0 /\ m[7] = 0 /\ m[6] = 0 /\ m[5] < 4
        val == m[1] + m[2] * Pow128(1) + m[3] * Pow128(2) + m[4] * Pow128(3) + m[5] * Pow128(4)
    IN  IF fits THEN (IF neg THEN 0 - val - 1 ELSE val)
        ELSE (IF neg THEN 0 - Sat ELSE Sat)

\* `as i32` of an i64: the low 32 bits, reinterpreted as signed.
I64AsI32(l) ==
    LET low31 == l[1] + l[2] * Pow128(1) + l[3] * Pow128(2) + l[4] * Pow128(3)
                 + (l[5] % 8) * Pow128(4)
    IN  IF (l[5] \div 8) % 2 = 1 THEN (low31 - 2147483647) - 1 ELSE low31

\* `as i16` of an i64: the low 16 bits, reinterpreted as signed.
I64AsI16(l) ==
    LET low16 == l[1] + l[2] * Pow128(1) + (l[3] % 4) * Pow128(2)
    IN  IF low16 >= 32768 THEN low16 - 65536 ELSE low16

\* i64::from_be_bytes: eight big-endian bytes as a 64-bit value.
BitOfBE(b, k) == (b[8 - (k \div 8)] \div (2 ^ (k % 8))) % 2

I64FromBE(b) ==
    [i \in 1..9 |->
        IF i = 9 THEN b[1]
        ELSE BitOfBE(b, 7 * (i - 1)) + 2 * BitOfBE(b, 7 * (i - 1) + 1)
             + 4 * BitOfBE(b, 7 * (i - 1) + 2) + 8 * BitOfBE(b, 7 * (i - 1) + 3)
             + 16 * BitOfBE(b, 7 * (i - 1) + 4) + 32 * BitOfBE(b, 7 * (i - 1) + 5)
             + 64 * BitOfBE(b, 7 * (i - 1) + 6)]

\* i32::from_be_bytes and i16::from_be_bytes.
I32FromBE(b) ==
    LET hi == IF b[1] >= 128 THEN b[1] - 256 ELSE b[1]
    IN  hi * 16777216 + b[2] * 65536 + b[3] * 256 + b[4]

I16FromBE(b) ==
    LET hi == IF b[1] >= 128 THEN b[1] - 256 ELSE b[1]
    IN  hi * 256 + b[2]

----------------------------------------------------------------------------
(* ByteStream::read_var_i64: up to eight bytes of 7 data bits, then a      *)
(* ninth byte of 8 bits at << 56.                                          *)

\* Mutant: the ninth byte is masked like the first eight (& 0x7f).
RECURSIVE read_var_i64_mask9(_, _, _)
read_var_i64_mask9(s, i, ret) ==
    (CHOOSE the \in {IF r.ok THEN
        IF i = 8 THEN Ok(I64AddAt(ret, 9, (r.v + 256) % 128), r.s)
        ELSE (CHOOSE the \in {(IF r.v >= 0 THEN Ok(acc, r.s) ELSE read_var_i64_mask9(r.s, i + 1, acc))
             : acc \in {I64AddAt(ret, i + 1, (r.v + 256) % 128)}} : TRUE)
    ELSE r : r \in {read_i8(s)}} : TRUE)

\* The loop `for i in 0..8` and the statement after it (i = 8).
RECURSIVE read_var_i64_from(_, _, _)
read_var_i64_from(s, i, ret) ==
    (CHOOSE the \in {IF r.ok THEN
        IF i = 8 THEN Ok(I64AddAt(ret, 9, (r.v + 256) % 256), r.s)
        ELSE (CHOOSE the \in {(IF r.v >= 0 THEN Ok(acc, r.s) ELSE read_var_i64_from(r.s, i + 1, acc))
             : acc \in {I64AddAt(ret, i + 1, (r.v + 256) % 128)}} : TRUE)
    ELSE r : r \in {read_i8(s)}} : TRUE)

read_var_i64(s) == read_var_i64_from(s, 0, I64Zero)

read_i64(s) ==
    IF s.enc = "Raw"
    THEN (CHOOSE the \in {IF r.ok THEN Ok(I64FromBE(r.v), r.s) ELSE r : r \in {read_exact(s, 8)}} : TRUE)
    ELSE read_var_i64(s)

read_i32(s) ==
    IF s.enc = "Raw"
    THEN (CHOOSE the \in {IF r.ok THEN Ok(I32FromBE(r.v), r.s) ELSE r : r \in {read_exact(s, 4)}} : TRUE)
    ELSE (CHOOSE the \in {IF r.ok THEN Ok(I64AsI32(r.v), r.s) ELSE r : r \in {read_var_i64(s)}} : TRUE)

read_i16(s) ==
    IF s.enc = "Raw"
    THEN (CHOOSE the \in {IF r.ok THEN Ok(I16FromBE(r.v), r.s) ELSE r : r \in {read_exact(s, 2)}} : TRUE)
    ELSE (CHOOSE the \in {IF r.ok THEN Ok(I64AsI16(r.v), r.s) ELSE r : r \in {read_var_i64(s)}} : TRUE)

\* read_i64 with the value as an integer (for offsets, sizes and keys).
read_i64_int(s) == (CHOOSE the \in {IF r.ok THEN Ok(I64ToInt(r.v), r.s) ELSE r : r \in {read_i64(s)}} : TRUE)

----------------------------------------------------------------------------
(* Text.  A str is the sequence of its code points; T gives the code       *)
(* points of the literals the program and the inputs use.                  *)

Text ==
    ("metadata" :> <<109, 101, 116, 97, 100, 97, 116, 97>>) @@
    ("region" :> <<114, 101, 103, 105, 111, 110>>) @@
    ("class" :> <<99, 108, 97, 115, 115>>) @@
    ("field" :> <<102, 105, 101, 108, 100>>) @@
    ("setting" :> <<115, 101, 116, 116, 105, 110, 103>>) @@
    ("annotation" :> <<97, 110, 110, 111, 116, 97, 116, 105, 111, 110>>) @@
    ("root" :> <<114, 111, 111, 116>>) @@
    ("id" :> <<105, 100>>) @@
    ("name" :> <<110, 97, 109, 101>>) @@
    ("superType" :> <<115, 117, 112, 101, 114, 84, 121, 112, 101>>) @@
    ("simpleType" :> <<115, 105, 109, 112, 108, 101, 84, 121, 112, 101>>) @@
    ("constantPool" :> <<99, 111, 110, 115, 116, 97, 110, 116, 80, 111, 111, 108>>) @@
    ("dimension" :> <<100, 105, 109, 101, 110, 115, 105, 111, 110>>) @@
    ("value" :> <<118, 97, 108, 117, 101>>) @@
    ("value-0" :> <<118, 97, 108, 117, 101, 45, 48>>) @@
    ("value-1" :> <<118, 97, 108, 117, 101, 45, 49>>) @@
    ("true" :> <<116, 114, 117, 101>>) @@
    ("false" :> <<102, 97, 108, 115, 101>>) @@
    ("jdk.jfr.Label" :> <<106, 100, 107, 46, 106, 102, 114, 46, 76, 97, 98, 101, 108>>) @@
    ("jdk.jfr.Description" :> <<106, 100, 107, 46, 106, 102, 114, 46, 68, 101, 115, 99, 114, 105, 112, 116, 105, 111, 110>>) @@
    ("jdk.jfr.Experimental" :> <<106, 100, 107, 46, 106, 102, 114, 46, 69, 120, 112, 101, 114, 105, 109, 101, 110, 116, 97, 108>>) @@
    ("jdk.jfr.Category" :> <<106, 100, 107, 46, 106, 102, 114, 46, 67, 97, 116, 101, 103, 111, 114, 121>>) @@
    ("jdk.jfr.Unsigned" :> <<106, 100, 107, 46, 106, 102, 114, 46, 85, 110, 115, 105, 103, 110, 101, 100>>) @@
    ("jdk.jfr.MemoryAmount" :> <<106, 100, 107, 46, 106, 102, 114, 46, 77, 101, 109, 111, 114, 121, 65, 109, 111, 117, 110, 116>>) @@
    ("jdk.jfr.DataAmount" :> <<106, 100, 107, 46, 106, 102, 114, 46, 68, 97, 116, 97, 65, 109, 111, 117, 110, 116>>) @@
    ("jdk.jfr.Percentage" :> <<106, 100, 107, 46, 106, 102, 114, 46, 80, 101, 114, 99, 101, 110, 116, 97, 103, 101>>) @@
    ("jdk.jfr.MemoryAddress" :> <<106, 100, 107, 46, 106, 102, 114, 46, 77, 101, 109, 111, 114, 121, 65, 100, 100, 114, 101, 115, 115>>) @@
    ("jdk.jfr.Timespan" :> <<106, 100, 107, 46, 106, 102, 114, 46, 84, 105, 109, 101, 115, 112, 97, 110>>) @@
    ("jdk.jfr.Frequency" :> <<106, 100, 107, 46, 106, 102, 114, 46, 70, 114, 101, 113, 117, 101, 110, 99, 121>>) @@
    ("jdk.jfr.Timestamp" :> <<106, 100, 107, 46, 106, 102, 114, 46, 84, 105, 109, 101, 115, 116, 97, 109, 112>>) @@
    ("TICKS" :> <<84, 73, 67, 75, 83>>) @@
    ("NANOSECONDS" :> <<78, 65, 78, 79, 83, 69, 67, 79, 78, 68, 83>>) @@
    ("MILLISECONDS" :> <<77, 73, 76, 76, 73, 83, 69, 67, 79, 78, 68, 83>>) @@
    ("SECONDS" :> <<83, 69, 67, 79, 78, 68, 83>>) @@
    ("NANOSECONDS_SINCE_EPOCH" :> <<78, 65, 78, 79, 83, 69, 67, 79, 78, 68, 83, 95, 83, 73, 78, 67, 69, 95, 69, 80, 79, 67, 72>>) @@
    ("MILLISECONDS_SINCE_EPOCH" :> <<77, 73, 76, 76, 73, 83, 69, 67, 79, 78, 68, 83, 95, 83, 73, 78, 67, 69, 95, 69, 80, 79, 67, 72>>) @@
    ("SECONDS_SINCE_EPOCH" :> <<83, 69, 67, 79, 78, 68, 83, 95, 83, 73, 78, 67, 69, 95, 69, 80, 79, 67, 72>>) @@
    ("int" :> <<105, 110, 116>>) @@
    ("long" :> <<108, 111, 110, 103>>) @@
    ("float" :> <<102, 108, 111, 97, 116>>) @@
    ("double" :> <<100, 111, 117, 98, 108, 101>>) @@
    ("char" :> <<99, 104, 97, 114>>) @@
    ("boolean" :> <<98, 111, 111, 108, 101, 97, 110>>) @@
    ("short" :> <<115, 104, 111, 114, 116>>) @@
    ("byte" :> <<98, 121, 116, 101>>) @@
    ("java.lang.String" :> <<106, 97, 118, 97, 46, 108, 97, 110, 103, 46, 83, 116, 114, 105, 110, 103>>) @@
    ("jdk.types.Thread" :> <<106, 100, 107, 46, 116, 121, 112, 101, 115, 46, 84, 104, 114, 101, 97, 100>>) @@
    ("osName" :> <<111, 115, 78, 97, 109, 101>>) @@
    ("osThreadId" :> <<111, 115, 84, 104, 114, 101, 97, 100, 73, 100>>) @@
    ("jdk.ExecutionSample" :> <<106, 100, 107, 46, 69, 120, 101, 99, 117, 116, 105, 111, 110, 83, 97, 109, 112, 108, 101>>) @@
    ("sampledThread" :> <<115, 97, 109, 112, 108, 101, 100, 84, 104, 114, 101, 97, 100>>) @@
    ("lines" :> <<108, 105, 110, 101, 115>>) @@
    ("eventThread" :> <<101, 118, 101, 110, 116, 84, 104, 114, 101, 97, 100>>) @@
    ("jdk.types.ThreadGroup" :> <<106, 100, 107, 46, 116, 121, 112, 101, 115, 46, 84, 104, 114, 101, 97, 100, 71, 114, 111, 117, 112>>) @@
    ("threads" :> <<116, 104, 114, 101, 97, 100, 115>>) @@
    ("jdk.Broken" :> <<106, 100, 107, 46, 66, 114, 111, 107, 101, 110>>) @@
    ("missing" :> <<109, 105, 115, 115, 105, 110, 103>>) @@
    ("jdk.Loop" :> <<106, 100, 107, 46, 76, 111, 111, 112>>) @@
    ("self" :> <<115, 101, 108, 102>>) @@
    ("jdk.List" :> <<106, 100, 107, 46, 76, 105, 115, 116>>) @@
    ("head" :> <<104, 101, 97, 100>>) @@
    ("tail" :> <<116, 97, 105, 108>>) @@
    ("jdk.Empty" :> <<106, 100, 107, 46, 69, 109, 112, 116, 121>>) @@
    ("jdk.Names" :> <<106, 100, 107, 46, 78, 97, 109, 101, 115>>) @@
    ("names" :> <<110, 97, 109, 101, 115>>) @@
    ("jdk.Tick" :> <<106, 100, 107, 46, 84, 105, 99, 107>>) @@
    ("tick" :> <<116, 105, 99, 107>>) @@
    ("bogus" :> <<98, 111, 103, 117, 115>>) @@
    ("1" :> <<49>>) @@
    ("2" :> <<50>>) @@
    ("3" :> <<51>>) @@
    ("7" :> <<55>>) @@
    ("11" :> <<49, 49>>) @@
    ("16" :> <<49, 54>>) @@
    ("20" :> <<50, 48>>) @@
    ("-1" :> <<45, 49>>) @@
    ("x" :> <<120>>) @@
    ("" :> <<>>)

T(name) == Text[name]

----------------------------------------------------------------------------
(* ByteStream::read_string.  Text is a sequence of code points.            *)

STRING_ENCODING_NULL == 0
STRING_ENCODING_EMPTY_STRING == 1
STRING_ENCODING_CONSTANT_POOL == 2
STRING_ENCODING_UTF8_BYTE_ARRAY == 3
STRING_ENCODING_CHAR_ARRAY == 4
STRING_ENCODING_LATIN1_BYTE_ARRAY == 5

\* StringType
StringNull == [st |-> "Null", text |-> <<>>, index |-> I64Zero]
StringEmpty == [st |-> "Empty", text |-> <<>>, index |-> I64Zero]
StringRaw(text) == [st |-> "Raw", text |-> text, index |-> I64Zero]
StringConstantPool(idx) == [st |-> "ConstantPool", text |-> <<>>, index |-> idx]

IsCont(b) == b >= 128 /\ b <= 191

\* String::from_utf8: the code points of well-formed UTF-8, or failure.
RECURSIVE Utf8Decode(_, _, _)
Utf8Decode(b, i, acc) ==
    IF i > Len(b) THEN [ok |-> TRUE, text |-> acc]
    ELSE LET b0 == b[i]
             n  == Len(b) - i
             bad == [ok |-> FALSE, text |-> <<>>]
         IN  IF b0 < 128 THEN Utf8Decode(b, i + 1, Append(acc, b0))
             ELSE IF b0 >= 194 /\ b0 <= 223
             THEN IF n >= 1 /\ IsCont(b[i + 1])
                  THEN Utf8Decode(b, i + 2, Append(acc, (b0 - 192) * 64 + (b[i + 1] - 128)))
                  ELSE bad
             ELSE IF b0 >= 224 /\ b0 <= 239
             THEN IF /\ n >= 2 /\ IsCont(b[i + 1]) /\ IsCont(b[i + 2])
                     /\ (b0 = 224 => b[i + 1] >= 160)
                     /\ (b0 = 237 => b[i + 1] <= 159)
                  THEN Utf8Decode(b, i + 3, Append(acc,
                          (b0 - 224) * 4096 + (b[i + 1] - 128) * 64 + (b[i + 2] - 128)))
                  ELSE bad
             ELSE IF b0 >= 240 /\ b0 <= 244
             THEN IF /\ n >= 3 /\ IsCont(b[i + 1]) /\ IsCont(b[i + 2]) /\ IsCont(b[i + 3])
                     /\ (b0 = 240 => b[i + 1] >= 144)
                     /\ (b0 = 244 => b[i + 1] <= 143)
                  THEN Utf8Decode(b, i + 4, Append(acc,
                          (b0 - 240) * 262144 + (b[i + 1] - 128) * 4096
                          + (b[i + 2] - 128) * 64 + (b[i + 3] - 128)))
                  ELSE bad
             ELSE bad

\* The loop of the char-array branch: `size` times read_i16()? as u32, then
\* char::try_from.  A negative i16 sign-extends to a u32 above 0x10FFFF, and
\* the surrogates 0xD800..0xDFFF lie in that negative range.
RECURSIVE read_chars(_, _, _)
read_chars(s, size, acc) ==
    IF size = 0 THEN Ok(StringRaw(acc), s)
    ELSE (CHOOSE the \in {IF r.ok THEN
             IF r.v < 0 THEN Err("InvalidString", r.s)
             ELSE read_chars(r.s, size - 1, Append(acc, r.v))
         ELSE r : r \in {read_i16(s)}} : TRUE)

\* The byte-array branches: `size` bytes, then the conversion of the encoding.
read_string_bytes(s, encoding, size) ==
    (CHOOSE the \in {IF b.ok THEN
        IF encoding = STRING_ENCODING_LATIN1_BYTE_ARRAY THEN Ok(StringRaw(b.v), b.s)
        ELSE IF encoding = STRING_ENCODING_UTF8_BYTE_ARRAY
        THEN (CHOOSE the \in {(IF u.ok THEN Ok(StringRaw(u.text), b.s) ELSE Err("InvalidString", b.s))
             : u \in {Utf8Decode(b.v, 1, <<>>)}} : TRUE)
        ELSE Err("InvalidString", b.s)
    ELSE b : b \in {read_exact(s, size)}} : TRUE)

read_string(s) ==
    (CHOOSE the \in {IF e.ok THEN
        IF e.v = STRING_ENCODING_NULL THEN Ok(StringNull, e.s)
        ELSE IF e.v = STRING_ENCODING_EMPTY_STRING THEN Ok(StringEmpty, e.s)
        ELSE IF e.v = STRING_ENCODING_CONSTANT_POOL
        THEN (CHOOSE the \in {IF r.ok THEN
                 Ok(StringConstantPool(r.v), r.s)
             ELSE r : r \in {read_i64(e.s)}} : TRUE)
        ELSE (CHOOSE the \in {IF z.ok THEN
                 \* `as usize` of a negative size asks Vec::with_capacity for
                 \* more than isize::MAX bytes
                 IF z.v < 0 THEN Err("PanicCapacityOverflow", z.s)
                 ELSE IF e.v = STRING_ENCODING_CHAR_ARRAY THEN read_chars(z.s, z.v, <<>>)
                 ELSE read_string_bytes(z.s, e.v, z.v)
             ELSE z : z \in {read_i32(e.s)}} : TRUE)
    ELSE e : e \in {read_i8(s)}} : TRUE)

\* read_f32 / read_f64: the raw bytes stand for the float.
read_f32(s) == read_exact(s, 4)

read_f64(s) == read_exact(s, 8)

\* read_char: a 16-bit code unit as a char; a surrogate is no char.
read_char(s) ==
    (CHOOSE the \in {IF r.ok THEN
        (CHOOSE the \in {(IF c >= 55296 /\ c <= 57343 THEN Err("InvalidChar", r.s) ELSE Ok(c, r.s))
        : c \in {(r.v + 65536) % 65536}} : TRUE)
    ELSE r : r \in {read_i16(s)}} : TRUE)

----------------------------------------------------------------------------
(* TypePool: class id -> TypeDescriptor, as a function on the registered   *)
(* ids.  A TypeDescriptor is [class_id, name, fields]; a FieldDescriptor   *)
(* is [class_id, name, constant_pool, array_type].                         *)

TypePool_get(pool, class_id) ==
    IF class_id \in DOMAIN pool
    THEN [some |-> TRUE, desc |-> pool[class_id]]
    ELSE [some |-> FALSE, desc |-> [class_id |-> class_id, name |-> <<>>, fields |-> <<>>]]

\* TypeDescriptor::get_field: the index of the first field of that name.
RECURSIVE TypeDescriptor_get_field(_, _, _)
TypeDescriptor_get_field(desc, name, idx) ==
    IF idx > Len(desc.fields) THEN [some |-> FALSE, idx |-> 0]
    ELSE IF desc.fields[idx].name = name THEN [some |-> TRUE, idx |-> idx]
    ELSE TypeDescriptor_get_field(desc, name, idx + 1)

----------------------------------------------------------------------------
(* ValueDescriptor.                                                        *)

Primitive(prim, val) == [kind |-> "Primitive", prim |-> prim, val |-> val]

Object(class_id, fields) == [kind |-> "Object", class_id |-> class_id, fields |-> fields]

Array(elems) == [kind |-> "Array", elems |-> elems]

ConstantPoolRef(class_id, constant_index) ==
    [kind |-> "ConstantPool", class_id |-> class_id, constant_index |-> constant_index]

PrimitiveNames ==
    {T("int"), T("long"), T("float"), T("double"), T("char"), T("boolean"), T("short"),
     T("byte"), T("java.lang.String")}

\* Some(ValueDescriptor::Primitive(..)) around the result of a read.
SomePrimitive(v, prim) ==
    (CHOOSE the \in {IF r.ok THEN
        Ok([some |-> TRUE, value |-> Primitive(prim, r.v)], r.s)
    ELSE r : r \in {v}} : TRUE)

\* The java.lang.String arm of try_read_primitive.
read_string_value(s, type_desc) ==
    (CHOOSE the \in {IF r.ok THEN
        IF r.v.st = "Null"
        THEN Ok([some |-> TRUE, value |-> Primitive("NullString", <<>>)], r.s)
        ELSE IF r.v.st = "Empty"
        THEN Ok([some |-> TRUE, value |-> Primitive("String", <<>>)], r.s)
        ELSE IF r.v.st = "Raw"
        THEN Ok([some |-> TRUE, value |-> Primitive("String", r.v.text)], r.s)
        ELSE Ok([some |-> TRUE,
                 value |-> ConstantPoolRef(type_desc.class_id, I64ToInt(r.v.index))], r.s)
    ELSE r : r \in {read_string(s)}} : TRUE)

\* ValueDescriptor::try_read_primitive; `some` is FALSE for a composite type.
try_read_primitive(s, type_desc) ==
    IF type_desc.name = T("int") THEN SomePrimitive(read_i32(s), "Integer")
    ELSE IF type_desc.name = T("long") THEN SomePrimitive(read_i64_int(s), "Long")
    ELSE IF type_desc.name = T("float") THEN SomePrimitive(read_f32(s), "Float")
    ELSE IF type_desc.name = T("double") THEN SomePrimitive(read_f64(s), "Double")
    ELSE IF type_desc.name = T("char") THEN SomePrimitive(read_char(s), "Character")
    ELSE IF type_desc.name = T("boolean")
    THEN (CHOOSE the \in {IF r.ok THEN
             Ok([some |-> TRUE, value |-> Primitive("Boolean", r.v # 0)], r.s)
         ELSE r : r \in {read_i8(s)}} : TRUE)
    ELSE IF type_desc.name = T("short") THEN SomePrimitive(read_i16(s), "Short")
    ELSE IF type_desc.name = T("byte") THEN SomePrimitive(read_i8(s), "Byte")
    ELSE IF type_desc.name = T("java.lang.String") THEN read_string_value(s, type_desc)
    ELSE Ok([some |-> FALSE, value |-> Primitive("none", <<>>)], s)

RECURSIVE try_new_in(_, _, _, _)
RECURSIVE read_object_fields(_, _, _, _, _, _)
RECURSIVE read_array_elems(_, _, _, _, _, _)

\* Mutant: every element of an array field is taken for a pool index, as
\* if the test were `constant_pool || array_type`.
try_read_field_single_anyarray(s, field_desc, pool, stack) ==
    IF field_desc.constant_pool \/ field_desc.array_type
    THEN (CHOOSE the \in {IF r.ok THEN
             Ok(ConstantPoolRef(field_desc.class_id, r.v), r.s)
         ELSE r : r \in {read_i64_int(s)}} : TRUE)
    ELSE try_new_in(s, field_desc.class_id, pool, stack)

\* ValueDescriptor::try_read_field_single
try_read_field_single(s, field_desc, pool, stack) ==
    IF field_desc.constant_pool
    THEN (CHOOSE the \in {IF r.ok THEN
             Ok(ConstantPoolRef(field_desc.class_id, r.v), r.s)
         ELSE r : r \in {read_i64_int(s)}} : TRUE)
    ELSE try_new_in(s, field_desc.class_id, pool, stack)

\* `for _ in 0..count { elems.push(try_read_field_single(..)?) }`
read_array_elems(s, field_desc, count, acc, pool, stack) ==
    IF count = 0 THEN Ok(Array(acc), s)
    ELSE (CHOOSE the \in {IF r.ok THEN
             read_array_elems(r.s, field_desc, count - 1, Append(acc, r.v), pool, stack)
         ELSE r : r \in {try_read_field_single(s, field_desc, pool, stack)}} : TRUE)

\* One declared field: an array (i32 count, then the elements) or a scalar.
read_field_value(s, field_desc, pool, stack) ==
    IF field_desc.array_type
    THEN (CHOOSE the \in {IF c.ok THEN
             \* `as usize` of a negative count: Vec::with_capacity panics
             IF c.v < 0 THEN Err("PanicCapacityOverflow", c.s)
             ELSE read_array_elems(c.s, field_desc, c.v, <<>>, pool, stack)
         ELSE c : c \in {read_i32(s)}} : TRUE)
    ELSE try_read_field_single(s, field_desc, pool, stack)

\* Mutant: an empty array is not pushed onto the object's fields.
RECURSIVE read_object_fields_drop(_, _, _, _, _, _)
read_object_fields_drop(s, type_desc, i, acc, pool, stack) ==
    IF i > Len(type_desc.fields) THEN Ok(Object(type_desc.class_id, acc), s)
    ELSE (CHOOSE the \in {IF r.ok THEN
             read_object_fields_drop(r.s, type_desc, i + 1,
                 IF r.v.kind = "Array" /\ r.v.elems = <<>> THEN acc ELSE Append(acc, r.v),
                 pool, stack)
         ELSE r : r \in {read_field_value(s, type_desc.fields[i], pool, stack)}} : TRUE)

\* `for field_desc in type_desc.fields.iter() { .. obj.fields.push(value) }`
read_object_fields(s, type_desc, i, acc, pool, stack) ==
    IF i > Len(type_desc.fields) THEN Ok(Object(type_desc.class_id, acc), s)
    ELSE (CHOOSE the \in {IF r.ok THEN
             read_object_fields(r.s, type_desc, i + 1, Append(acc, r.v), pool, stack)
         ELSE r : r \in {read_field_value(s, type_desc.fields[i], pool, stack)}} : TRUE)

\* ValueDescriptor::try_new, with the frames (class id, cursor) of the calls
\* it is nested in.  The decoder is a function of the class id and the
\* cursor, so a frame that occurs again inside itself recurses for ever: the
\* call stack overflows.
try_new_in(s, class_id, pool, stack) ==
    (CHOOSE the \in {(IF ~t.some THEN Err("ClassNotFound", s)
        ELSE IF <<class_id, s.pos>> \in stack THEN Err("StackOverflow", s)
        ELSE (CHOOSE the \in {IF p.ok THEN
                 IF p.v.some THEN Ok(p.v.value, p.s)
                 ELSE read_object_fields(s, t.desc, 1, <<>>, pool,
                                         stack \cup {<<class_id, s.pos>>})
             ELSE p : p \in {try_read_primitive(s, t.desc)}} : TRUE))
    : t \in {TypePool_get(pool, class_id)}} : TRUE)

try_new(s, class_id, pool) == try_new_in(s, class_id, pool, {})

----------------------------------------------------------------------------
(* Harness for the byte stream: a 64-bit value is written in the           *)
(* variable-length encoding, then read back with read_i64 in Compressed    *)
(* mode.                                                                   *)

\* The index of the highest non-zero limb (0 for the value 0).
RECURSIVE TopLimb(_, _)
TopLimb(l, i) == IF i = 0 THEN 0 ELSE IF l[i] # 0 THEN i ELSE TopLimb(l, i - 1)

\* The encoding of x in n bytes (n no smaller than the shortest encoding):
\* the 7-bit groups least significant first, bit 7 set on every byte that is
\* followed by another, and a ninth byte holding bits 56..63 as they are.
I64Encode(l, n) ==
    [i \in 1..n |-> IF i = 9 THEN l[9] ELSE IF i < n THEN l[i] + 128 ELSE l[i]]

MinEncodedLen(l) == IF TopLimb(l, 9) = 0 THEN 1 ELSE TopLimb(l, 9)

LowLimbSamples == {0, 127}

TopLimbSamples == {1, 85}

NinthLimbSamples == {1, 128, 255}

\* The values read back: every number of significant limbs, each limb drawn
\* from its samples, and the value of the unit test.
BsValues ==
    {I64Zero, <<5, 48, 3, 0, 0, 0, 0, 0, 0>>}
    \cup UNION {{[i \in 1..9 |-> IF i < h THEN low[i] ELSE IF i = h THEN top ELSE 0] :
                    low \in [1..8 -> LowLimbSamples],
                    top \in (IF h = 9 THEN NinthLimbSamples ELSE TopLimbSamples)} : h \in 1..9}

\* Bytes that follow the encoded value in the source.
BsTails == {<<>>, <<129, 1>>}

BsOff ==
    /\ bsX = I64Zero
    /\ bsStream = ByteStream_new(<<>>)
    /\ bsResult = Err("none", ByteStream_new(<<>>))
    /\ bsPc = "off"

BsInit ==
    /\ bsX \in BsValues
    /\ \E tail \in BsTails :
          bsStream = set_int_encoding(
                        ByteStream_new(I64Encode(bsX, MinEncodedLen(bsX)) \o tail), "Compressed")
    /\ bsResult = Err("none", bsStream)
    /\ bsPc = "ready"

\* One call of read_i64 on the stream.
BsReadI64 ==
    /\ bsPc = "ready"
    /\ bsResult' = read_i64(bsStream)
    /\ bsPc' = "done"
    /\ UNCHANGED <<bsX, bsStream, vdVars, eiVars, acVars, cpVars, chVars, deVars, stVars, mdVars>>

BsNext == BsReadI64

----------------------------------------------------------------------------
(* Harness for the value decoder: try_new applied to a source of bytes     *)
(* under a type pool that holds the built-in names, composite types with   *)
(* flagged, array and nested fields, a field of an undeclared class and    *)
(* types that contain themselves.                                          *)

FieldDesc(class_id, name, constant_pool, array_type) ==
    [class_id |-> class_id, name |-> T(name),
     constant_pool |-> constant_pool, array_type |-> array_type]

TypeDesc(class_id, name, fields) ==
    [class_id |-> class_id, name |-> T(name), fields |-> fields]

VdPool ==
    LET types == <<
            TypeDesc(1, "int", <<>>),
            TypeDesc(2, "java.lang.String", <<>>),
            TypeDesc(3, "jdk.types.Thread",
                <<FieldDesc(2, "osName", FALSE, FALSE), FieldDesc(1, "osThreadId", FALSE, FALSE)>>),
            TypeDesc(4, "jdk.ExecutionSample",
                <<FieldDesc(3, "sampledThread", TRUE, FALSE),
                  FieldDesc(1, "lines", FALSE, TRUE),
                  FieldDesc(3, "eventThread", FALSE, FALSE)>>),
            TypeDesc(5, "jdk.types.ThreadGroup",
                <<FieldDesc(3, "threads", TRUE, TRUE), FieldDesc(2, "name", TRUE, FALSE)>>),
            TypeDesc(6, "jdk.Broken", <<FieldDesc(99, "missing", FALSE, FALSE)>>),
            TypeDesc(7, "jdk.Loop", <<FieldDesc(7, "self", FALSE, FALSE)>>),
            TypeDesc(8, "jdk.List",
                <<FieldDesc(11, "head", FALSE, FALSE), FieldDesc(8, "tail", FALSE, TRUE)>>),
            TypeDesc(9, "boolean", <<>>),
            TypeDesc(10, "long", <<>>),
            TypeDesc(11, "byte", <<>>),
            TypeDesc(12, "short", <<>>),
            TypeDesc(13, "float", <<>>),
            TypeDesc(14, "double", <<>>),
            TypeDesc(15, "char", <<>>),
            TypeDesc(16, "jdk.Empty", <<>>),
            TypeDesc(17, "jdk.Names", <<FieldDesc(2, "names", FALSE, TRUE)>>)>>
    IN  [id \in 1..Len(types) |-> types[id]]

\* The class ids try_new is entered with: the declared ones and one that is
\* not declared.
VdClassIds == (DOMAIN VdPool) \cup {99}

MaxStreamLen == 5

VdBytes == {0, 1, 2, 3}

VdSources == UNION {[1..n -> VdBytes] : n \in 0..MaxStreamLen}

VdOff ==
    /\ vdClass = 0
    /\ vdStream = ByteStream_new(<<>>)
    /\ vdResult = Err("none", ByteStream_new(<<>>))
    /\ vdPc = "off"

VdInit ==
    /\ vdClass \in VdClassIds
    /\ \E buf \in VdSources : vdStream = set_int_encoding(ByteStream_new(buf), "Compressed")
    /\ vdResult = Err("none", vdStream)
    /\ vdPc = "ready"

\* One call of ValueDescriptor::try_new.
VdTryNew ==
    /\ vdPc = "ready"
    /\ vdResult' = try_new(vdStream, vdClass, VdPool)
    /\ vdPc' = "done"
    /\ UNCHANGED <<vdClass, vdStream, bsVars, eiVars, acVars, cpVars, chVars, deVars, stVars, mdVars>>

VdNext == VdTryNew

----------------------------------------------------------------------------
(* EventIterator.                                                          *)

EVENT_TYPE_METADATA == 0
EVENT_TYPE_CONSTANT_POOL == 1

HEADER_SIZE == 68

\* ChunkHeader::body_start_offset
body_start_offset == HEADER_SIZE

\* A u64 that wrapped around below zero: 2^64 - n for a small n.  It is
\* above every size of the model, and nothing is added to it again.
U64Huge == Sat

\* offset + (size as u64) on 64 bits, for an i32 size.
U64AddI32(offset, size) == IF offset + size < 0 THEN U64Huge ELSE offset + size

\* Whether that addition carries out of bit 63: `size as u64` of a negative
\* size is 2^64 + size.
U64AddI32Overflows(offset, size) == size < 0 /\ offset + size >= 0

\* The arm `EVENT_TYPE_METADATA | EVENT_TYPE_CONSTANT_POOL => {}`.
IsElided(event_type) == event_type \in {EVENT_TYPE_METADATA, EVENT_TYPE_CONSTANT_POOL}

\* What one turn of the loop of internal_next leaves behind.  out is
\* "continue" (the record was skipped), "event" (Ok(Some(event))), "torn"
\* (an Err from reading the record header, the offset unmoved), "error" (an
\* Err after the offset moved) or "panic".
Turn(out, s, offset, size, event_type, value, err) ==
    [out |-> out, s |-> s, offset |-> offset, size |-> size, type |-> event_type,
     value |-> value, err |-> err]

\* The match on the event type, for a record that is not elided.
read_event(s, offset, size, event_type, pool) ==
    IF ~TypePool_get(pool, event_type).some
    THEN Turn("error", s, offset, size, event_type, <<>>, "ClassNotFound")
    ELSE (CHOOSE the \in {(IF v.ok THEN Turn("event", v.s, offset, size, event_type, v.v, "none")
             ELSE Turn("error", v.s, offset, size, event_type, <<>>, v.err))
         : v \in {try_new(s, event_type, pool)}} : TRUE)

\* Mutant: the offset moves to where value decoding stopped reading.
internal_next_turn_consumed(s0, offset, pool, checks) ==
    (CHOOSE the \in {(IF ~size.ok THEN Turn("torn", size.s, offset, 0, 0, <<>>, size.err)
        ELSE (CHOOSE the \in {(IF ~ty.ok THEN Turn("torn", ty.s, offset, size.v, 0, <<>>, ty.err)
            ELSE IF IsElided(ty.v)
            THEN Turn("continue", ty.s, U64AddI32(offset, size.v), size.v, ty.v, <<>>, "none")
            ELSE (CHOOSE the \in {([e EXCEPT !.offset = e.s.pos - body_start_offset])
                 : e \in {read_event(ty.s, offset, size.v, ty.v, pool)}} : TRUE))
             : ty \in {read_i64_int(size.s)}} : TRUE))
    : size \in {read_i32(seek(s0, body_start_offset + offset))}} : TRUE)

\* One turn of `while self.offset < end_offset { .. }` in internal_next:
\* the record header is read at body_start_offset + offset, the offset moves
\* on by the size field, and the record is skipped or decoded.
internal_next_turn(s0, offset, pool, checks) ==
    (CHOOSE the \in {(IF ~size.ok THEN Turn("torn", size.s, offset, 0, 0, <<>>, size.err)
        ELSE (CHOOSE the \in {(IF ~ty.ok THEN Turn("torn", ty.s, offset, size.v, 0, <<>>, ty.err)
            ELSE IF checks /\ U64AddI32Overflows(offset, size.v)
            THEN Turn("panic", ty.s, offset, size.v, ty.v, <<>>, "PanicAddOverflow")
            ELSE IF IsElided(ty.v)
            THEN Turn("continue", ty.s, U64AddI32(offset, size.v), size.v, ty.v, <<>>, "none")
            ELSE read_event(ty.s, U64AddI32(offset, size.v), size.v, ty.v, pool))
             : ty \in {read_i64_int(size.s)}} : TRUE))
    : size \in {read_i32(seek(s0, body_start_offset + offset))}} : TRUE)

----------------------------------------------------------------------------
(* Harness for the event iterator: a chunk body laid out from records.  A  *)
(* well-formed record is its size, its type, a payload and padding, the    *)
(* size field counting all of them; the others carry a size field that is  *)
(* zero, negative, or short of the bytes the record holds, or break off    *)
(* inside the size field.                                                  *)

MaxRecords == 3

MaxCalls == 5

MaxVisits == 6

Rec(event_type, payload, pad) ==
    [type |-> event_type, size |-> 2 + Len(payload) + Len(pad),
     bytes |-> <<2 + Len(payload) + Len(pad), event_type>> \o payload \o pad, wf |-> TRUE]

RecMalformed(event_type, size, bytes) ==
    [type |-> event_type, size |-> size, bytes |-> bytes, wf |-> FALSE]

\* Event types: 11 is a one-byte value, 16 an object without fields, 3 an
\* object of a string and an int, 99 is not declared.
EiTemplates ==
    { Rec(0, <<>>, <<>>), Rec(0, <<7, 7>>, <<9>>), Rec(1, <<5>>, <<>>),
      Rec(11, <<7>>, <<>>), Rec(11, <<>>, <<>>), Rec(11, <<7>>, <<9, 9>>),
      Rec(16, <<>>, <<>>), Rec(16, <<>>, <<9>>), Rec(3, <<1, 4>>, <<>>),
      Rec(99, <<>>, <<>>),
      RecMalformed(0, 0, <<0, 0>>),
      RecMalformed(16, 0, <<0, 16>>),
      RecMalformed(16, 0 - 2, <<254, 255, 255, 255, 15, 16>>),
      RecMalformed(11, 2, <<2, 11, 7>>),
      RecMalformed(0, 0, <<128>>) }

EiLayouts == UNION {[1..n -> EiTemplates] : n \in 0..MaxRecords}

RECURSIVE EiBody(_, _)
EiBody(recs, k) == IF k > Len(recs) THEN <<>> ELSE recs[k].bytes \o EiBody(recs, k + 1)

\* The body offset of record k of a layout: the sizes before it, summed.
RECURSIVE EiOffsetOf(_, _)
EiOffsetOf(recs, k) == IF k <= 1 THEN 0 ELSE EiOffsetOf(recs, k - 1) + recs[k - 1].size

EiHeaderBytes == [i \in 1..HEADER_SIZE |-> 0]

EiOff ==
    /\ eiRecs = <<>>
    /\ eiChecks = FALSE
    /\ eiStream = ByteStream_new(<<>>)
    /\ eiEnd = 0
    /\ eiOffset = 0
    /\ eiAt = 0
    /\ eiPc = "off"
    /\ eiTrace = <<>>
    /\ eiItems = <<>>

\* EventIterator::new on a chunk whose header says Compressed.
EiInit ==
    /\ eiRecs \in EiLayouts
    /\ eiChecks \in BOOLEAN
    /\ eiStream = set_int_encoding(
                      ByteStream_new(EiHeaderBytes \o EiBody(eiRecs, 1)), "Compressed")
    /\ eiEnd = Len(EiBody(eiRecs, 1))
    /\ eiOffset = 0
    /\ eiAt = 0
    /\ eiPc = "idle"
    /\ eiTrace = <<>>
    /\ eiItems = <<>>

Item(kind, at, off, event_type, value, err) ==
    [kind |-> kind, at |-> at, off |-> off, type |-> event_type, value |-> value, err |-> err]

\* next() is called.
EiCall ==
    /\ eiPc = "idle"
    /\ Len(eiItems) < MaxCalls
    /\ eiPc' = "running"
    /\ eiAt' = eiOffset
    /\ UNCHANGED <<eiRecs, eiChecks, eiStream, eiEnd, eiOffset, eiTrace, eiItems>>
    /\ UNCHANGED <<bsVars, vdVars, acVars, cpVars, chVars, deVars, stVars, mdVars>>

\* The loop condition fails: internal_next returns Ok(None), next() None.
EiReturnNone ==
    /\ eiPc = "running"
    /\ ~(eiOffset < eiEnd)
    /\ eiItems' = Append(eiItems, Item("none", eiAt, eiOffset, 0, <<>>, "none"))
    /\ eiPc' = "idle"
    /\ UNCHANGED <<eiRecs, eiChecks, eiStream, eiEnd, eiOffset, eiAt, eiTrace>>
    /\ UNCHANGED <<bsVars, vdVars, acVars, cpVars, chVars, deVars, stVars, mdVars>>

\* One turn of the loop.
EiTurn ==
    /\ eiPc = "running"
    /\ eiOffset < eiEnd
    /\ Len(eiTrace) < MaxVisits
    /\ \E t \in {internal_next_turn(eiStream, eiOffset, VdPool, eiChecks)} :
          /\ eiStream' = t.s
          /\ eiOffset' = t.offset
          /\ eiTrace' = Append(eiTrace, [off |-> eiOffset, size |-> t.size, type |-> t.type,
                                         out |-> t.out, err |-> t.err])
          /\ eiPc' = CASE t.out = "continue" -> "running"
                        [] t.out = "panic" -> "panicked"
                        [] OTHER -> "idle"
          /\ eiItems' = IF t.out \in {"event", "error", "torn"}
                        THEN Append(eiItems,
                                 Item(IF t.out = "event" THEN "event" ELSE "error",
                                      eiAt, eiOffset, t.type, t.value, t.err))
                        ELSE eiItems
    /\ UNCHANGED <<eiRecs, eiChecks, eiEnd, eiAt>>
    /\ UNCHANGED <<bsVars, vdVars, acVars, cpVars, chVars, deVars, stVars, mdVars>>

EiNext == EiCall \/ EiReturnNone \/ EiTurn

----------------------------------------------------------------------------
(* ConstantPool lookup and the accessors.  An Option carries the number of *)
(* constant-pool lookups that were made to produce it.                     *)

Some(v, lookups) == [some |-> TRUE, v |-> v, lookups |-> lookups, panicked |-> FALSE]

None(lookups) == [some |-> FALSE, v |-> <<>>, lookups |-> lookups, panicked |-> FALSE]

\* The thread unwinds out of the operation.
Panicked(lookups) == [some |-> FALSE, v |-> <<>>, lookups |-> lookups, panicked |-> TRUE]

\* ConstantPool::get
ConstantPool_get(constant_pool, class_id, constant_index) ==
    IF <<class_id, constant_index>> \in DOMAIN constant_pool
    THEN Some(constant_pool[<<class_id, constant_index>>], 1)
    ELSE None(1)

\* `res` of get_object_field: the type of the object, the index of the
\* field of that name, the value at that index.
object_field_at(obj, name, type_pool) ==
    IF ~TypePool_get(type_pool, obj.class_id).some THEN None(0)
    ELSE (CHOOSE the \in {(IF f.some /\ f.idx <= Len(obj.fields) THEN Some(obj.fields[f.idx], 0)
                 ELSE None(0))
         : f \in {TypeDescriptor_get_field(TypePool_get(type_pool, obj.class_id).desc, name, 1)}} : TRUE)

\* Mutant: a reference found in the pool is followed once more.
get_object_field_twice(obj, name, type_pool, constant_pool) ==
    (CHOOSE the \in {(IF res.some /\ res.v.kind = "ConstantPool"
        THEN (CHOOSE the \in {(IF e.some /\ e.v.kind = "ConstantPool"
                     THEN [ConstantPool_get(constant_pool, e.v.class_id, e.v.constant_index)
                              EXCEPT !.lookups = 2]
                     ELSE e)
             : e \in {ConstantPool_get(constant_pool, res.v.class_id, res.v.constant_index)}} : TRUE)
        ELSE res)
    : res \in {object_field_at(obj, name, type_pool)}} : TRUE)

\* ValueDescriptor::get_object_field
get_object_field(obj, name, type_pool, constant_pool) ==
    (CHOOSE the \in {(IF res.some /\ res.v.kind = "ConstantPool"
        THEN ConstantPool_get(constant_pool, res.v.class_id, res.v.constant_index)
        ELSE res)
    : res \in {object_field_at(obj, name, type_pool)}} : TRUE)

\* ValueDescriptor::get_field
ValueDescriptor_get_field(self, name, type_pool, constant_pool) ==
    IF self.kind = "Object" THEN get_object_field(self, name, type_pool, constant_pool)
    ELSE IF self.kind = "ConstantPool"
    THEN (CHOOSE the \in {(IF e.some /\ e.v.kind = "Object"
             THEN (CHOOSE the \in {([r EXCEPT !.lookups = r.lookups + 1])
                  : r \in {get_object_field(e.v, name, type_pool, constant_pool)}} : TRUE)
             ELSE None(1))
         : e \in {ConstantPool_get(constant_pool, self.class_id, self.constant_index)}} : TRUE)
    ELSE None(0)

\* Accessor::get_field
Accessor_get_field(value, name, type_pool, constant_pool) ==
    ValueDescriptor_get_field(value, name, type_pool, constant_pool)

\* Accessor::get_resolved: `.expect("invalid constant pool entry")` panics
\* on None.
Accessor_get_resolved(value, constant_pool) ==
    IF value.kind = "ConstantPool"
    THEN (CHOOSE the \in {(IF e.some THEN e ELSE Panicked(1))
         : e \in {ConstantPool_get(constant_pool, value.class_id, value.constant_index)}} : TRUE)
    ELSE Some(value, 0)

\* Accessor::as_iter: the elements of the array, or None.
Accessor_as_iter(value, constant_pool) ==
    IF value.kind = "Array" THEN Some(value.elems, 0)
    ELSE IF value.kind = "ConstantPool"
    THEN (CHOOSE the \in {(IF e.some /\ e.v.kind = "Array" THEN Some(e.v.elems, 1) ELSE None(1))
         : e \in {ConstantPool_get(constant_pool, value.class_id, value.constant_index)}} : TRUE)
    ELSE None(0)

----------------------------------------------------------------------------
(* Harness for the accessors: navigation from an event value through a     *)
(* constant pool in which entries may be absent, may be references, and    *)
(* may refer to each other in a cycle.                                     *)

MaxSteps == 3

AcThread == Object(3, <<Primitive("String", T("x")), Primitive("Integer", 7)>>)

AcThreadByRef == Object(3, <<ConstantPoolRef(2, 1), Primitive("Integer", 7)>>)

\* For each key, the entries a pool may hold under it.
AcEntries ==
    [k \in {<<3, 1>>, <<3, 2>>, <<2, 1>>, <<5, 1>>} |->
        CASE k = <<3, 1>> -> {AcThread, AcThreadByRef, ConstantPoolRef(3, 2), ConstantPoolRef(3, 1)}
          [] k = <<3, 2>> -> {AcThread, ConstantPoolRef(3, 1)}
          [] k = <<2, 1>> -> {Primitive("String", T("x")), ConstantPoolRef(2, 1)}
          [] k = <<5, 1>> -> {Array(<<ConstantPoolRef(3, 1), ConstantPoolRef(3, 2)>>),
                              Object(5, <<Array(<<ConstantPoolRef(3, 2)>>), ConstantPoolRef(2, 1)>>)}]

AcPools ==
    UNION {{p \in [keys -> UNION {AcEntries[k] : k \in keys}] :
                \A k \in keys : p[k] \in AcEntries[k]} : keys \in SUBSET DOMAIN AcEntries}

\* Event values: a jdk.ExecutionSample and a jdk.types.ThreadGroup.
AcValues ==
    {Object(4, <<ConstantPoolRef(3, i), Array(<<Primitive("Integer", 7)>>), th>>) :
        i \in {1, 2}, th \in {AcThread, AcThreadByRef}}
    \cup {Object(5, <<Array(<<ConstantPoolRef(3, 1), ConstantPoolRef(3, 2)>>),
                      ConstantPoolRef(2, 1)>>),
          ConstantPoolRef(5, 1)}

AcNames ==
    {T("sampledThread"), T("lines"), T("eventThread"), T("osName"), T("threads"), T("name"),
     T("bogus")}

AcOp(op, name, self, r) == [op |-> op, name |-> name, self |-> self, r |-> r]

AcOff ==
    /\ acPool = <<>>
    /\ acValue = Primitive("none", <<>>)
    /\ acLast = AcOp("none", <<>>, Primitive("none", <<>>), None(0))
    /\ acSteps = 0
    /\ acPc = "off"

AcInit ==
    /\ acPool \in AcPools
    /\ acValue \in AcValues
    /\ acLast = AcOp("none", <<>>, Primitive("none", <<>>), None(0))
    /\ acSteps = 0
    /\ acPc = "ready"

\* accessor.get_field(name); the caller goes on with the accessor returned.
AcGetField ==
    /\ acPc = "ready"
    /\ acSteps < MaxSteps
    /\ \E name \in AcNames :
          \E r \in {Accessor_get_field(acValue, name, VdPool, acPool)} :
              /\ acLast' = AcOp("get_field", name, acValue, r)
              /\ acValue' = IF r.some THEN r.v ELSE acValue
    /\ acSteps' = acSteps + 1
    /\ UNCHANGED <<acPool, acPc>>
    /\ UNCHANGED <<bsVars, vdVars, eiVars, cpVars, chVars, deVars, stVars, mdVars>>

\* accessor.get_resolved()
AcGetResolved ==
    /\ acPc = "ready"
    /\ acSteps < MaxSteps
    /\ \E r \in {Accessor_get_resolved(acValue, acPool)} :
          /\ acLast' = AcOp("get_resolved", <<>>, acValue, r)
          /\ acValue' = IF r.some THEN r.v ELSE acValue
          /\ acPc' = IF r.panicked THEN "panicked" ELSE "ready"
    /\ acSteps' = acSteps + 1
    /\ UNCHANGED acPool
    /\ UNCHANGED <<bsVars, vdVars, eiVars, cpVars, chVars, deVars, stVars, mdVars>>

\* accessor.as_iter(); the caller goes on with one of the elements.
AcAsIter ==
    /\ acPc = "ready"
    /\ acSteps < MaxSteps
    /\ \E r \in {Accessor_as_iter(acValue, acPool)} :
          /\ acLast' = AcOp("as_iter", <<>>, acValue, r)
          /\ IF r.some /\ r.v # <<>>
             THEN \E k \in 1..Len(r.v) : acValue' = r.v[k]
             ELSE acValue' = acValue
    /\ acSteps' = acSteps + 1
    /\ UNCHANGED <<acPool, acPc>>
    /\ UNCHANGED <<bsVars, vdVars, eiVars, cpVars, chVars, deVars, stVars, mdVars>>

AcNext == AcGetField \/ AcGetResolved \/ AcAsIter

----------------------------------------------------------------------------
(* Constant pool construction: the walk from header.constant_pool_offset   *)
(* along the deltas of the constant-pool events.                           *)

\* ConstantPool::register: HashMap::insert replaces the value of the key.
register(constant_pool, class_id, constant_index, value) ==
    [k \in DOMAIN constant_pool \cup {<<class_id, constant_index>>} |->
        IF k = <<class_id, constant_index>> THEN value ELSE constant_pool[k]]

\* `for _ in 0..constant_count { index, value, register }`
RECURSIVE read_constants(_, _, _, _, _)
read_constants(s, class_id, constant_count, constant_pool, type_pool) ==
    IF constant_count <= 0 THEN Ok(constant_pool, s)
    ELSE (CHOOSE the \in {IF constant_index.ok THEN
             (CHOOSE the \in {IF value.ok THEN
             read_constants(value.s, class_id, constant_count - 1,
                 register(constant_pool, class_id, constant_index.v, value.v), type_pool)
         ELSE value : value \in {try_new(constant_index.s, class_id, type_pool)}} : TRUE)
         ELSE constant_index : constant_index \in {read_i64_int(s)}} : TRUE)

\* `for _ in 0..pool_count { class_id, constant_count, constants }`
RECURSIVE read_pools(_, _, _, _)
read_pools(s, pool_count, constant_pool, type_pool) ==
    IF pool_count <= 0 THEN Ok(constant_pool, s)
    ELSE (CHOOSE the \in {IF class_id.ok THEN
             (CHOOSE the \in {IF constant_count.ok THEN
             (CHOOSE the \in {IF filled.ok THEN
             read_pools(filled.s, pool_count - 1, filled.v, type_pool)
         ELSE filled : filled \in {read_constants(constant_count.s, class_id.v, constant_count.v, constant_pool, type_pool)}} : TRUE)
         ELSE constant_count : constant_count \in {read_i32(class_id.s)}} : TRUE)
         ELSE class_id : class_id \in {read_i64_int(s)}} : TRUE)

\* read_constant_pool_event: Ok([delta, constant_pool]).
\* Mutant: the event type is not looked at.
read_constant_pool_event_any(s, constant_pool, type_pool) ==
    (CHOOSE the \in {IF size.ok THEN
        (CHOOSE the \in {IF event_type.ok THEN
        (CHOOSE the \in {IF start.ok THEN
                 (CHOOSE the \in {IF duration.ok THEN
                 (CHOOSE the \in {IF delta.ok THEN
                 (CHOOSE the \in {IF flush.ok THEN
                 (CHOOSE the \in {IF pool_count.ok THEN
                 (CHOOSE the \in {IF filled.ok THEN
                 Ok([delta |-> delta.v, constant_pool |-> filled.v], filled.s)
             ELSE filled : filled \in {read_pools(pool_count.s, pool_count.v, constant_pool, type_pool)}} : TRUE)
             ELSE pool_count : pool_count \in {read_i32(flush.s)}} : TRUE)
             ELSE flush : flush \in {read_i8(delta.s)}} : TRUE)
             ELSE delta : delta \in {read_i64_int(duration.s)}} : TRUE)
             ELSE duration : duration \in {read_i64(start.s)}} : TRUE)
             ELSE start : start \in {read_i64(event_type.s)}} : TRUE)
    ELSE event_type : event_type \in {read_i64_int(size.s)}} : TRUE)
    ELSE size : size \in {read_i32(s)}} : TRUE)

read_constant_pool_event(s, constant_pool, type_pool) ==
    (CHOOSE the \in {IF size.ok THEN
        (CHOOSE the \in {IF event_type.ok THEN
        IF event_type.v # EVENT_TYPE_CONSTANT_POOL THEN Err("InvalidFormat", event_type.s)
        ELSE (CHOOSE the \in {IF start.ok THEN
                 (CHOOSE the \in {IF duration.ok THEN
                 (CHOOSE the \in {IF delta.ok THEN
                 (CHOOSE the \in {IF flush.ok THEN
                 (CHOOSE the \in {IF pool_count.ok THEN
                 (CHOOSE the \in {IF filled.ok THEN
                 Ok([delta |-> delta.v, constant_pool |-> filled.v], filled.s)
             ELSE filled : filled \in {read_pools(pool_count.s, pool_count.v, constant_pool, type_pool)}} : TRUE)
             ELSE pool_count : pool_count \in {read_i32(flush.s)}} : TRUE)
             ELSE flush : flush \in {read_i8(delta.s)}} : TRUE)
             ELSE delta : delta \in {read_i64_int(duration.s)}} : TRUE)
             ELSE duration : duration \in {read_i64(start.s)}} : TRUE)
             ELSE start : start \in {read_i64(event_type.s)}} : TRUE)
    ELSE event_type : event_type \in {read_i64_int(size.s)}} : TRUE)
    ELSE size : size \in {read_i32(s)}} : TRUE)

\* A result with the offsets of the events visited on the way to it.
Visited(result, seen) == [visited |-> seen] @@ result

\* `while delta != 0 { offset += delta; seek(offset); delta = event()? }`,
\* `seen` the offsets visited so far, in the order of the visits.
\* What an event does to the pool does not depend on the pool, so an offset
\* that comes up again comes up for ever: the loop does not end.
RECURSIVE read_constant_pool_from(_, _, _, _, _, _)
read_constant_pool_from(s, offset, delta, constant_pool, type_pool, seen) ==
    IF delta = 0 THEN Visited(Ok(constant_pool, s), seen)
    ELSE IF \E i \in 1..Len(seen) : seen[i] = offset + delta
    THEN Visited(Err("Diverges", s), Append(seen, offset + delta))
    ELSE (CHOOSE the \in {IF e.ok THEN
             read_constant_pool_from(e.s, offset + delta, e.v.delta, e.v.constant_pool,
                                         type_pool, Append(seen, offset + delta))
         ELSE Visited(e, Append(seen, offset + delta)) : e \in {read_constant_pool_event( seek(s, IF offset + delta < 0 THEN U64Huge ELSE offset + delta), constant_pool, type_pool)}} : TRUE)

\* ConstantPoolReader::read_constant_pool
read_constant_pool(s, constant_pool_offset, type_pool) ==
    read_constant_pool_from(s, 0, constant_pool_offset, <<>>, type_pool, <<>>)

----------------------------------------------------------------------------
(* Harness for the constant pool: a chunk whose constant-pool events lie   *)
(* in file order, each holding pools of constants of the types int (1)     *)
(* and long (10).  In a well-formed chain the header addresses the last    *)
(* event and each event's delta leads back to the event before it, the     *)
(* first event's delta being 0.  In the other chains the first event leads *)
(* on to the last one ("cycle"), has an event type that is not 1           *)
(* ("badtype"), or the second event's delta is 0 already ("short").        *)

MaxPoolEvents == 3

\* The 64-bit value of an integer of the model.
RECURSIVE Digits128(_, _)
Digits128(n, k) == IF k = 0 THEN <<>> ELSE <<n % 128>> \o Digits128(n \div 128, k - 1)

I64OfInt(n) ==
    IF n >= 0 THEN Digits128(n, 8) \o <<0>>
    ELSE [i \in 1..9 |-> IF i = 9 THEN 255 ELSE 127 - Digits128(0 - n - 1, 8)[i]]

\* The shortest variable-length encoding of an integer.
VarInt(n) ==
    (CHOOSE the \in {(CHOOSE the \in {I64Encode(l, len) : len \in {MinEncodedLen(l)}} : TRUE) : l \in {I64OfInt(n)}} : TRUE)

RECURSIVE FlattenFrom(_, _)
FlattenFrom(seqs, i) == IF i > Len(seqs) THEN <<>> ELSE seqs[i] \o FlattenFrom(seqs, i + 1)

\* The sequences of a sequence, one after the other.
Flatten(seqs) == (CHOOSE the \in {FlattenFrom(v, 1) : v \in {seqs}} : TRUE)

CpConst(index, val) == [index |-> index, val |-> val]

CpPoolOf(class_id, constants) == [class_id |-> class_id, constants |-> constants]

CpPoolBytes(pool) ==
    VarInt(pool.class_id) \o VarInt(Len(pool.constants))
    \o Flatten([i \in 1..Len(pool.constants) |->
                    VarInt(pool.constants[i].index) \o VarInt(pool.constants[i].val)])

\* The delta of the first event takes two bytes, that of a later one nine.
CpDeltaBytes(k, delta) == I64Encode(I64OfInt(delta), IF k = 1 THEN 2 ELSE 9)

\* size, type, start, duration, delta, flush, pool count, pools
CpEventBytes(pools, k, event_type, delta) ==
    (CHOOSE the \in {(<<1 + Len(rest)>> \o rest)
    : rest \in {VarInt(event_type) \o <<0, 0>> \o CpDeltaBytes(k, delta) \o <<0>> \o VarInt(Len(pools)) \o Flatten([i \in 1..Len(pools) |-> CpPoolBytes(pools[i])])}} : TRUE)

CpTemplates ==
    { <<>>,
      <<CpPoolOf(1, <<CpConst(1, 5)>>)>>,
      <<CpPoolOf(1, <<CpConst(1, 6)>>)>>,
      <<CpPoolOf(1, <<CpConst(2, 5)>>)>>,
      <<CpPoolOf(1, <<CpConst(1, 5), CpConst(2, 6)>>)>>,
      <<CpPoolOf(1, <<CpConst(1, 5), CpConst(1, 7)>>)>>,
      <<CpPoolOf(10, <<CpConst(1, 5)>>)>>,
      <<CpPoolOf(10, <<CpConst(1, 6)>>), CpPoolOf(1, <<CpConst(1, 7)>>)>>,
      <<CpPoolOf(1, <<CpConst(2, 7)>>), CpPoolOf(1, <<CpConst(2, 5)>>)>> }

CpLayouts == UNION {[1..n -> CpTemplates] : n \in 0..MaxPoolEvents}

\* A record of another type that lies between two constant-pool events.
CpFiller == <<3, 16, 9>>

\* The offset of event k from the start of the chunk.
RECURSIVE CpOffsetOf(_, _)
CpOffsetOf(events, k) ==
    IF k <= 1 THEN HEADER_SIZE + Len(CpFiller)
    ELSE CpOffsetOf(events, k - 1)
         + Len(CpEventBytes(events[k - 1], k - 1, 1, 0 - 1)) + Len(CpFiller)

CpDeltaOf(events, chain, k) ==
    IF chain = "short" /\ k = 2 THEN 0
    ELSE IF k > 1 THEN CpOffsetOf(events, k - 1) - CpOffsetOf(events, k)
    ELSE IF chain = "cycle" THEN CpOffsetOf(events, Len(events)) - CpOffsetOf(events, 1)
    ELSE 0

CpTypeOf(chain, k) == IF chain = "badtype" /\ k = 1 THEN 2 ELSE EVENT_TYPE_CONSTANT_POOL

CpChunkBytes(events, chain) ==
    [i \in 1..HEADER_SIZE |-> 0]
    \o Flatten([k \in 1..Len(events) |->
                    CpFiller \o CpEventBytes(events[k], k, CpTypeOf(chain, k),
                                             CpDeltaOf(events, chain, k))])

CpOff ==
    /\ cpEvents = <<>>
    /\ cpChain = "wf"
    /\ cpStream = ByteStream_new(<<>>)
    /\ cpOffset = 0
    /\ cpResult = Err("none", ByteStream_new(<<>>))
    /\ cpPc = "off"

CpInit ==
    /\ cpEvents \in CpLayouts
    /\ cpChain \in {"wf", "cycle", "badtype", "short"}
    /\ cpStream = set_int_encoding(ByteStream_new(CpChunkBytes(cpEvents, cpChain)), "Compressed")
    /\ cpOffset = IF cpEvents = <<>> THEN 0 ELSE CpOffsetOf(cpEvents, Len(cpEvents))
    /\ cpResult = Err("none", cpStream)
    /\ cpPc = "ready"

\* The constant pool of the chunk is built.
CpRead ==
    /\ cpPc = "ready"
    /\ cpResult' = read_constant_pool(cpStream, cpOffset, VdPool)
    /\ cpPc' = "done"
    /\ UNCHANGED <<cpEvents, cpChain, cpStream, cpOffset>>
    /\ UNCHANGED <<bsVars, vdVars, eiVars, acVars, chVars, deVars, stVars, mdVars>>

CpNext == CpRead

----------------------------------------------------------------------------
(* Metadata: the string table and the element tree of the metadata event,  *)
(* and the types declared from it.                                         *)

\* Option<T>
Absent == [some |-> FALSE, v |-> 0]

Present(v) == [some |-> TRUE, v |-> v]

\* HashMap::insert
insert(map, key, value) ==
    [k \in DOMAIN map \cup {key} |-> IF k = key THEN value ELSE map[k]]

\* StringTable::try_new, the loop: `for _ in 0..string_count`
RECURSIVE read_strings(_, _, _)
read_strings(s, string_count, strings) ==
    IF string_count <= 0 THEN Ok(strings, s)
    ELSE (CHOOSE the \in {IF r.ok THEN
             IF r.v.st = "Null" THEN read_strings(r.s, string_count - 1, Append(strings, Absent))
             ELSE IF r.v.st \in {"Empty", "Raw"}
             THEN read_strings(r.s, string_count - 1, Append(strings, Present(r.v.text)))
             ELSE Err("InvalidString", r.s)
         ELSE r : r \in {read_string(s)}} : TRUE)

\* StringTable::try_new.  `string_count as usize` of a negative count asks
\* Vec::with_capacity for more than isize::MAX bytes.
StringTable_try_new(s) ==
    (CHOOSE the \in {IF string_count.ok THEN
        IF string_count.v < 0 THEN Err("PanicCapacityOverflow", string_count.s)
        ELSE read_strings(string_count.s, string_count.v, <<>>)
    ELSE string_count : string_count \in {read_i32(s)}} : TRUE)

\* StringTable::get: `idx as usize` of a negative index is out of range.
StringTable_get(string_table, idx, s) ==
    IF idx >= 0 /\ idx < Len(string_table) /\ string_table[idx + 1].some
    THEN Ok(string_table[idx + 1].v, s)
    ELSE Err("InvalidStringIndex", s)

\* StringReference
StringReference_new(index, string) == [index |-> index, string |-> string]

IsDigit(c) == c >= 48 /\ c <= 57

RECURSIVE DigitsValue(_, _, _)
DigitsValue(text, i, acc) ==
    IF i > Len(text) THEN acc
    ELSE DigitsValue(text, i + 1, IF acc * 10 + (text[i] - 48) >= Sat THEN Sat
                                  ELSE acc * 10 + (text[i] - 48))

\* str::parse::<i64> and str::parse::<i32>: an optional sign and at least
\* one decimal digit (values of Sat and more are carried as Sat).
ParseInt(text, s) ==
    (CHOOSE the \in {(IF digits = <<>> \/ \E i \in 1..Len(digits) : ~IsDigit(digits[i])
        THEN Err("InvalidFormat", s)
        ELSE IF text[1] = 45 THEN Ok(0 - DigitsValue(digits, 1, 0), s)
        ELSE Ok(DigitsValue(digits, 1, 0), s))
    : digits \in {IF Len(text) > 0 /\ text[1] \in {43, 45} THEN Tail(text) ELSE text}} : TRUE)

\* str::parse::<bool>
ParseBool(text, s) ==
    IF text = T("true") THEN Ok(TRUE, s)
    ELSE IF text = T("false") THEN Ok(FALSE, s)
    ELSE Err("InvalidFormat", s)

\* The elements, each with the Default of its struct.
RootElement == [kind |-> "Root", metadata |-> Absent, region |-> Absent]

MetadataElement == [kind |-> "Metadata", classes |-> <<>>]

RegionElement == [kind |-> "Region"]

ClassElement ==
    [kind |-> "Class", annotations |-> <<>>, fields |-> <<>>, setting |-> Absent,
     class_id |-> 0, type_identifier |-> Absent, super_type |-> Absent,
     simple_type |-> Absent]

FieldElement ==
    [kind |-> "Field", annotations |-> <<>>, field_identifier |-> Absent, class_id |-> 0,
     constant_pool |-> Absent, dimension |-> Absent]

AnnotationElement == [kind |-> "Annotation", class_id |-> 0, attributes |-> <<>>]

SettingElement == [kind |-> "Setting", annotations |-> <<>>]

\* ElementType::try_new
ElementType_try_new(name, s) ==
    IF name = T("metadata") THEN Ok(MetadataElement, s)
    ELSE IF name = T("region") THEN Ok(RegionElement, s)
    ELSE IF name = T("class") THEN Ok(ClassElement, s)
    ELSE IF name = T("field") THEN Ok(FieldElement, s)
    ELSE IF name = T("setting") THEN Ok(SettingElement, s)
    ELSE IF name = T("annotation") THEN Ok(AnnotationElement, s)
    ELSE Err("InvalidFormat", s)

\* ElementType::append_child: a child the parent does not take is dropped.
append_child(self, child) ==
    IF self.kind = "Root" /\ child.kind = "Metadata" THEN [self EXCEPT !.metadata = Present(child)]
    ELSE IF self.kind = "Root" /\ child.kind = "Region" THEN [self EXCEPT !.region = Present(child)]
    ELSE IF self.kind = "Metadata" /\ child.kind = "Class"
    THEN [self EXCEPT !.classes = Append(@, child)]
    ELSE IF self.kind = "Class" /\ child.kind = "Field"
    THEN [self EXCEPT !.fields = Append(@, child)]
    ELSE IF self.kind \in {"Class", "Field", "Setting"} /\ child.kind = "Annotation"
    THEN [self EXCEPT !.annotations = Append(@, child)]
    ELSE IF self.kind = "Class" /\ child.kind = "Setting"
    THEN [self EXCEPT !.setting = Present(child)]
    ELSE self

\* ElementType::set_attribute.  The name of a class or a field is kept as
\* the reference to its string (its index and the string it stands for).
set_attribute(self, key, value, s) ==
    IF self.kind = "Class" THEN
        IF key.string = T("id")
        THEN (CHOOSE the \in {IF p.ok THEN
                 Ok([self EXCEPT !.class_id = p.v], s)
             ELSE p : p \in {ParseInt(value.string, s)}} : TRUE)
        ELSE IF key.string = T("name") THEN Ok([self EXCEPT !.type_identifier = Present(value)], s)
        ELSE IF key.string = T("superType") THEN Ok([self EXCEPT !.super_type = Present(value)], s)
        ELSE IF key.string = T("simpleType")
        THEN (CHOOSE the \in {IF p.ok THEN
                 Ok([self EXCEPT !.simple_type = Present(p.v)], s)
             ELSE p : p \in {ParseBool(value.string, s)}} : TRUE)
        ELSE Ok(self, s)
    ELSE IF self.kind = "Field" THEN
        IF key.string = T("name") THEN Ok([self EXCEPT !.field_identifier = Present(value)], s)
        ELSE IF key.string = T("class")
        THEN (CHOOSE the \in {IF p.ok THEN
                 Ok([self EXCEPT !.class_id = p.v], s)
             ELSE p : p \in {ParseInt(value.string, s)}} : TRUE)
        ELSE IF key.string = T("constantPool")
        THEN (CHOOSE the \in {IF p.ok THEN
                 Ok([self EXCEPT !.constant_pool = Present(p.v)], s)
             ELSE p : p \in {ParseBool(value.string, s)}} : TRUE)
        ELSE IF key.string = T("dimension")
        THEN (CHOOSE the \in {IF p.ok THEN
                 Ok([self EXCEPT !.dimension = Present(p.v)], s)
             ELSE p : p \in {ParseInt(value.string, s)}} : TRUE)
        ELSE Ok(self, s)
    ELSE IF self.kind = "Annotation" THEN
        IF key.string = T("class")
        THEN (CHOOSE the \in {IF p.ok THEN
                 Ok([self EXCEPT !.class_id = p.v], s)
             ELSE p : p \in {ParseInt(value.string, s)}} : TRUE)
        ELSE Ok([self EXCEPT !.attributes = insert(@, key.string, value)], s)
    ELSE Ok(self, s)

\* read_element, the body of `for _ in 0..attribute_count`
read_attribute(s, string_table, current_element) ==
    (CHOOSE the \in {IF key_idx.ok THEN
        (CHOOSE the \in {IF value_idx.ok THEN
        (CHOOSE the \in {IF key.ok THEN
        (CHOOSE the \in {IF value.ok THEN
        set_attribute(current_element, StringReference_new(key_idx.v, key.v),
                      StringReference_new(value_idx.v, value.v), value_idx.s)
    ELSE value : value \in {StringTable_get(string_table, value_idx.v, value_idx.s)}} : TRUE)
    ELSE key : key \in {StringTable_get(string_table, key_idx.v, value_idx.s)}} : TRUE)
    ELSE value_idx : value_idx \in {read_i32(key_idx.s)}} : TRUE)
    ELSE key_idx : key_idx \in {read_i32(s)}} : TRUE)

\* read_element, the first loop: `for _ in 0..attribute_count`
RECURSIVE read_attributes(_, _, _, _)
read_attributes(s, string_table, attribute_count, current_element) ==
    IF attribute_count <= 0 THEN Ok(current_element, s)
    ELSE (CHOOSE the \in {IF e.ok THEN
             read_attributes(e.s, string_table, attribute_count - 1, e.v)
         ELSE e : e \in {read_attribute(s, string_table, current_element)}} : TRUE)

\* Metadata::read_element: Ok([element, class_name_map]).  The second loop,
\* `for _ in 0..children_count`, is read_children, and read_child its body.
RECURSIVE read_element(_, _, _, _)
read_child(s, string_table, class_name_map, current_element) ==
    (CHOOSE the \in {IF name_idx.ok THEN
        (CHOOSE the \in {IF name.ok THEN
        (CHOOSE the \in {IF element.ok THEN
        (CHOOSE the \in {IF child.ok THEN
        Ok([element |-> append_child(current_element, child.v.element),
            class_name_map |-> child.v.class_name_map], child.s)
    ELSE child : child \in {read_element(element.s, string_table, class_name_map, element.v)}} : TRUE)
    ELSE element : element \in {ElementType_try_new(name.v, name.s)}} : TRUE)
    ELSE name : name \in {StringTable_get(string_table, name_idx.v, name_idx.s)}} : TRUE)
    ELSE name_idx : name_idx \in {read_i32(s)}} : TRUE)

RECURSIVE read_children(_, _, _, _, _)
read_children(s, string_table, class_name_map, current_element, children_count) ==
    IF children_count <= 0
    THEN Ok([element |-> current_element, class_name_map |-> class_name_map], s)
    ELSE (CHOOSE the \in {IF child.ok THEN
             read_children(child.s, string_table, child.v.class_name_map, child.v.element,
                           children_count - 1)
         ELSE child : child \in {read_child(s, string_table, class_name_map, current_element)}} : TRUE)

\* read_element, between the loops: the name of a class is entered in
\* class_name_map under its id.
class_name_resolved(class_name_map, current_element) ==
    IF current_element.kind = "Class" /\ current_element.type_identifier.some
    THEN insert(class_name_map, current_element.class_id,
                current_element.type_identifier.v.string)
    ELSE class_name_map

read_element(s, string_table, class_name_map, element) ==
    (CHOOSE the \in {IF attribute_count.ok THEN
        (CHOOSE the \in {IF current_element.ok THEN
        (CHOOSE the \in {IF children_count.ok THEN
        read_children(children_count.s, string_table,
                      class_name_resolved(class_name_map, current_element.v),
                      current_element.v, children_count.v)
    ELSE children_count : children_count \in {read_i32(current_element.s)}} : TRUE)
    ELSE current_element : current_element \in {read_attributes(attribute_count.s, string_table, attribute_count.v, element)}} : TRUE)
    ELSE attribute_count : attribute_count \in {read_i32(s)}} : TRUE)

\* HashMap::get
get(map, key) == IF key \in DOMAIN map THEN Present(map[key]) ELSE Absent

\* format!("{}", idx) for idx >= 0
RECURSIVE Decimal(_)
Decimal(n) == IF n < 10 THEN <<48 + n>> ELSE Decimal(n \div 10) \o <<48 + (n % 10)>>

\* declare_types, "jdk.jfr.Category": value-0, value-1, ... up to the first
\* index that is not an attribute.
RECURSIVE category_from(_, _, _)
category_from(attributes, idx, category) ==
    IF (T("value") \o <<45>> \o Decimal(idx)) \in DOMAIN attributes
    THEN category_from(attributes, idx + 1,
                       Append(category, attributes[T("value") \o <<45>> \o Decimal(idx)]))
    ELSE category

\* declare_types, the body of `for annot in class_element.annotations`
class_annotation(desc, annot, class_name_map) ==
    (CHOOSE the \in {(IF ~name.some THEN desc
        ELSE IF name.v = T("jdk.jfr.Label")
        THEN [desc EXCEPT !.label = get(annot.attributes, T("value"))]
        ELSE IF name.v = T("jdk.jfr.Description")
        THEN [desc EXCEPT !.description = get(annot.attributes, T("value"))]
        ELSE IF name.v = T("jdk.jfr.Experimental") THEN [desc EXCEPT !.experimental = TRUE]
        ELSE IF name.v = T("jdk.jfr.Category")
        THEN [desc EXCEPT !.category = category_from(annot.attributes, 0, @)]
        ELSE desc)
    : name \in {get(class_name_map, annot.class_id)}} : TRUE)

\* declare_types, "jdk.jfr.Timespan" and "jdk.jfr.Timestamp": the unit the
\* attribute `value` names.
timespan_unit(field_desc, attributes) ==
    (CHOOSE the \in {(IF ~v.some THEN field_desc
        ELSE IF v.v.string = T("TICKS") THEN [field_desc EXCEPT !.tick_unit = Present("Timespan")]
        ELSE IF v.v.string = T("NANOSECONDS") THEN [field_desc EXCEPT !.unit = Present("Nanosecond")]
        ELSE IF v.v.string = T("MILLISECONDS") THEN [field_desc EXCEPT !.unit = Present("Millisecond")]
        ELSE IF v.v.string = T("SECONDS") THEN [field_desc EXCEPT !.unit = Present("Second")]
        ELSE field_desc)
    : v \in {get(attributes, T("value"))}} : TRUE)

timestamp_unit(field_desc, attributes) ==
    (CHOOSE the \in {(IF ~v.some THEN field_desc
        ELSE IF v.v.string = T("TICKS") THEN [field_desc EXCEPT !.tick_unit = Present("Timestamp")]
        ELSE IF v.v.string = T("NANOSECONDS_SINCE_EPOCH")
        THEN [field_desc EXCEPT !.unit = Present("EpochNano")]
        ELSE IF v.v.string = T("MILLISECONDS_SINCE_EPOCH")
        THEN [field_desc EXCEPT !.unit = Present("EpochMilli")]
        ELSE IF v.v.string = T("SECONDS_SINCE_EPOCH")
        THEN [field_desc EXCEPT !.unit = Present("EpochSecond")]
        ELSE field_desc)
    : v \in {get(attributes, T("value"))}} : TRUE)

\* declare_types, the body of `for annot in field.annotations`
field_annotation(field_desc, annot, class_name_map) ==
    (CHOOSE the \in {(IF ~name.some THEN field_desc
        ELSE IF name.v = T("jdk.jfr.Label")
        THEN [field_desc EXCEPT !.label = get(annot.attributes, T("value"))]
        ELSE IF name.v = T("jdk.jfr.Description")
        THEN [field_desc EXCEPT !.description = get(annot.attributes, T("value"))]
        ELSE IF name.v = T("jdk.jfr.Experimental") THEN [field_desc EXCEPT !.experimental = TRUE]
        ELSE IF name.v = T("jdk.jfr.Unsigned") THEN [field_desc EXCEPT !.unsigned = TRUE]
        ELSE IF name.v \in {T("jdk.jfr.MemoryAmount"), T("jdk.jfr.DataAmount")}
        THEN [field_desc EXCEPT !.unit = Present("Byte")]
        ELSE IF name.v = T("jdk.jfr.Percentage")
        THEN [field_desc EXCEPT !.unit = Present("PercentUnity")]
        ELSE IF name.v = T("jdk.jfr.MemoryAddress")
        THEN [field_desc EXCEPT !.unit = Present("AddressUnity")]
        ELSE IF name.v = T("jdk.jfr.Timespan") THEN timespan_unit(field_desc, annot.attributes)
        ELSE IF name.v = T("jdk.jfr.Frequency") THEN [field_desc EXCEPT !.unit = Present("Hz")]
        ELSE IF name.v = T("jdk.jfr.Timestamp") THEN timestamp_unit(field_desc, annot.attributes)
        ELSE field_desc)
    : name \in {get(class_name_map, annot.class_id)}} : TRUE)

\* `for annot in class_element.annotations`
RECURSIVE class_annotations(_, _, _, _)
class_annotations(desc, annotations, i, class_name_map) ==
    IF i > Len(annotations) THEN desc
    ELSE class_annotations(class_annotation(desc, annotations[i], class_name_map),
                           annotations, i + 1, class_name_map)

\* `for annot in field.annotations`
RECURSIVE field_annotations(_, _, _, _)
field_annotations(field_desc, annotations, i, class_name_map) ==
    IF i > Len(annotations) THEN field_desc
    ELSE field_annotations(field_annotation(field_desc, annotations[i], class_name_map),
                           annotations, i + 1, class_name_map)

\* declare_types, the body of `for field in class_element.fields`
declare_field(field, class_name_map, s) ==
    IF ~field.field_identifier.some THEN Err("InvalidFormat", s)
    ELSE Ok(field_annotations([class_id |-> field.class_id,
                      name |-> field.field_identifier.v.string,
                      name_index |-> field.field_identifier.v.index,
                      label |-> Absent, description |-> Absent, experimental |-> FALSE,
                      constant_pool |-> IF field.constant_pool.some THEN field.constant_pool.v
                                        ELSE FALSE,
                      array_type |-> (IF field.dimension.some THEN field.dimension.v ELSE 0) > 0,
                      unsigned |-> FALSE, unit |-> Absent, tick_unit |-> Absent],
                     field.annotations, 1, class_name_map), s)

RECURSIVE declare_fields(_, _, _, _, _)
declare_fields(desc, fields, i, class_name_map, s) ==
    IF i > Len(fields) THEN Ok(desc, s)
    ELSE (CHOOSE the \in {IF field_desc.ok THEN
             declare_fields([desc EXCEPT !.fields = Append(@, field_desc.v)], fields, i + 1,
                            class_name_map, s)
         ELSE field_desc : field_desc \in {declare_field(fields[i], class_name_map, s)}} : TRUE)

\* declare_types, the body of `for class_element in classes`
declare_class(class_element, class_name_map, s) ==
    IF ~class_element.type_identifier.some THEN Err("InvalidFormat", s)
    ELSE declare_fields(
             class_annotations([class_id |-> class_element.class_id,
                       name |-> class_element.type_identifier.v.string,
                       name_index |-> class_element.type_identifier.v.index,
                       super_type |-> class_element.super_type,
                       simple_type |-> IF class_element.simple_type.some
                                       THEN class_element.simple_type.v ELSE FALSE,
                       fields |-> <<>>, label |-> Absent, description |-> Absent,
                       experimental |-> FALSE, category |-> <<>>],
                      class_element.annotations, 1, class_name_map),
             class_element.fields, 1, class_name_map, s)

RECURSIVE declare_classes(_, _, _, _, _)
declare_classes(pool, classes, i, class_name_map, s) ==
    IF i > Len(classes) THEN Ok(pool, s)
    ELSE (CHOOSE the \in {IF desc.ok THEN
             \* TypePool::register
             declare_classes(insert(pool, classes[i].class_id, desc.v), classes, i + 1,
                             class_name_map, s)
         ELSE desc : desc \in {declare_class(classes[i], class_name_map, s)}} : TRUE)

\* Metadata::declare_types
declare_types(root_element, class_name_map, s) ==
    IF root_element.metadata.some
    THEN declare_classes(<<>>, root_element.metadata.v.classes, 1, class_name_map, s)
    ELSE Ok(<<>>, s)

\* Metadata::read_types
read_types(s, string_table) ==
    (CHOOSE the \in {IF root_name.ok THEN
        (CHOOSE the \in {IF root.ok THEN
        declare_types(root.v.element, root.v.class_name_map, root.s)
    ELSE root : root \in {read_element(root_name.s, string_table, <<>>, RootElement)}} : TRUE)
    ELSE root_name : root_name \in {read_i32(s)}} : TRUE)

\* The chunk header.
ChunkHeader(chunk_size, constant_pool_offset, metadata_offset, start_time_nanos, duration_nanos, start_ticks, ticks_per_second, features) ==
    [chunk_size |-> chunk_size, constant_pool_offset |-> constant_pool_offset,
     metadata_offset |-> metadata_offset, start_time_nanos |-> start_time_nanos,
     duration_nanos |-> duration_nanos, start_ticks |-> start_ticks,
     ticks_per_second |-> ticks_per_second, features |-> features]

\* ChunkHeader::absolute_metadata_start_position: the metadata offset, which
\* counts from the start of the chunk (a negative one, as u64, lies past the
\* end).
absolute_metadata_start_position(header) ==
    IF header.metadata_offset < 0 THEN U64Huge ELSE header.metadata_offset

\* Metadata::try_new, up to the string table: the size, the event type
\* (which must be EVENT_TYPE_METADATA), the start time, the duration and the
\* metadata id.
read_metadata_event_head(s, header) ==
    (CHOOSE the \in {IF size.ok THEN
        (CHOOSE the \in {IF event_type.ok THEN
        IF event_type.v # EVENT_TYPE_METADATA THEN Err("InvalidFormat", event_type.s)
        ELSE (CHOOSE the \in {IF start_time.ok THEN
                 (CHOOSE the \in {IF duration.ok THEN
                 read_i64(duration.s)
             ELSE duration : duration \in {read_i64(start_time.s)}} : TRUE)
             ELSE start_time : start_time \in {read_i64(event_type.s)}} : TRUE)
    ELSE event_type : event_type \in {read_i64_int(size.s)}} : TRUE)
    ELSE size : size \in {read_i32(seek(s, absolute_metadata_start_position(header)))}} : TRUE)

\* Metadata::try_new: Ok([string_table, type_pool]).
Metadata_try_new(s, header) ==
    (CHOOSE the \in {IF metadata_id.ok THEN
        (CHOOSE the \in {IF string_table.ok THEN
        (CHOOSE the \in {IF type_pool.ok THEN
        Ok([string_table |-> string_table.v, type_pool |-> type_pool.v], type_pool.s)
    ELSE type_pool : type_pool \in {read_types(string_table.s, string_table.v)}} : TRUE)
    ELSE string_table : string_table \in {StringTable_try_new(metadata_id.s)}} : TRUE)
    ELSE metadata_id : metadata_id \in {read_metadata_event_head(s, header)}} : TRUE)

----------------------------------------------------------------------------
(* The chunk iterator: JfrReader and ChunkIterator of src/reader/mod.rs.   *)

MAGIC == <<70, 76, 82, 0>>

FEATURES_COMPRESSED_INTS == 1

\* ChunkHeader::int_encoding: bit 0 of the features
\* Mutant: every chunk is read with compressed integers.
int_encoding_compressed(header) == "Compressed"

int_encoding(header) ==
    IF (header.features \div FEATURES_COMPRESSED_INTS) % 2 # 0 THEN "Compressed" ELSE "Raw"

\* ChunkHeader::chunk_body_size
chunk_body_size(header) == header.chunk_size - HEADER_SIZE

\* ByteStream::read_as_bytes: the next `size` bytes of the source, or
\* IoError(UnexpectedEof) when the source ends before them.
read_as_bytes(s, size) == read_exact(s, size)

\* internal_next, the match on the first byte: Ok("magic") after the magic,
\* Ok("eof") when the source ends at the first byte.
\* Mutant: the source ending anywhere in the magic counts as the end.
read_magic_lenient(s) ==
    (CHOOSE the \in {(IF magic_head.ok
        THEN (CHOOSE the \in {(IF ~magic_tail.ok THEN Ok("eof", magic_tail.s)
                 ELSE IF <<magic_head.v>> \o magic_tail.v # MAGIC
                 THEN Err("InvalidFormat", magic_tail.s)
                 ELSE Ok("magic", magic_tail.s))
             : magic_tail \in {read_exact(magic_head.s, 3)}} : TRUE)
        ELSE IF magic_head.err = "UnexpectedEof" THEN Ok("eof", magic_head.s)
        ELSE magic_head)
    : magic_head \in {read_u8(s)}} : TRUE)

\* Mutant: only the first byte is compared with the magic.
read_magic_head_only(s) ==
    (CHOOSE the \in {(IF magic_head.ok
        THEN (CHOOSE the \in {IF magic_tail.ok THEN
                 IF magic_head.v # MAGIC[1]
                 THEN Err("InvalidFormat", magic_tail.s)
                 ELSE Ok("magic", magic_tail.s)
             ELSE magic_tail : magic_tail \in {read_exact(magic_head.s, 3)}} : TRUE)
        ELSE IF magic_head.err = "UnexpectedEof" THEN Ok("eof", magic_head.s)
        ELSE magic_head)
    : magic_head \in {read_u8(s)}} : TRUE)

read_magic(s) ==
    (CHOOSE the \in {(IF magic_head.ok
        THEN (CHOOSE the \in {IF magic_tail.ok THEN
                 IF <<magic_head.v>> \o magic_tail.v # MAGIC
                 THEN Err("InvalidFormat", magic_tail.s)
                 ELSE Ok("magic", magic_tail.s)
             ELSE magic_tail : magic_tail \in {read_exact(magic_head.s, 3)}} : TRUE)
        ELSE IF magic_head.err = "UnexpectedEof" THEN Ok("eof", magic_head.s)
        ELSE magic_head)
    : magic_head \in {read_u8(s)}} : TRUE)

\* Error::UnsupportedVersion(Version { major, minor })
UnsupportedVersion(major, minor, s) ==
    [Err("UnsupportedVersion", s) EXCEPT !.v = <<major, minor>>]

\* internal_next, the version and the chunk size: Ok(chunk_size).
\* Mutant: the chunk size is read before the version is looked at.
read_version_and_size_late(s) ==
    (CHOOSE the \in {IF major.ok THEN
        (CHOOSE the \in {IF minor.ok THEN
        (CHOOSE the \in {IF chunk_size.ok THEN
        IF major.v \notin {1, 2} THEN UnsupportedVersion(major.v, minor.v, chunk_size.s)
        ELSE chunk_size
    ELSE chunk_size : chunk_size \in {read_i64_int(minor.s)}} : TRUE)
    ELSE minor : minor \in {read_i16(major.s)}} : TRUE)
    ELSE major : major \in {read_i16(s)}} : TRUE)

\* Mutant: a minor version other than 0 is rejected too.
read_version_and_size_strict(s) ==
    (CHOOSE the \in {IF major.ok THEN
        (CHOOSE the \in {IF minor.ok THEN
        IF major.v \notin {1, 2} \/ minor.v # 0 THEN UnsupportedVersion(major.v, minor.v, minor.s)
        ELSE read_i64_int(minor.s)
    ELSE minor : minor \in {read_i16(major.s)}} : TRUE)
    ELSE major : major \in {read_i16(s)}} : TRUE)

read_version_and_size(s) ==
    (CHOOSE the \in {IF major.ok THEN
        (CHOOSE the \in {IF minor.ok THEN
        IF major.v \notin {1, 2} THEN UnsupportedVersion(major.v, minor.v, minor.s)
        ELSE read_i64_int(minor.s)
    ELSE minor : minor \in {read_i16(major.s)}} : TRUE)
    ELSE major : major \in {read_i16(s)}} : TRUE)

\* ChunkIterator::read_chunk_header
read_chunk_header(s, chunk_size) ==
    (CHOOSE the \in {IF constant_pool_offset.ok THEN
        (CHOOSE the \in {IF metadata_offset.ok THEN
        (CHOOSE the \in {IF start_time_nanos.ok THEN
        (CHOOSE the \in {IF duration_nanos.ok THEN
        (CHOOSE the \in {IF start_ticks.ok THEN
        (CHOOSE the \in {IF ticks_per_second.ok THEN
        (CHOOSE the \in {IF features.ok THEN
        Ok(ChunkHeader(chunk_size, constant_pool_offset.v, metadata_offset.v,
                       start_time_nanos.v, duration_nanos.v, start_ticks.v,
                       ticks_per_second.v, features.v), features.s)
    ELSE features : features \in {read_i32(ticks_per_second.s)}} : TRUE)
    ELSE ticks_per_second : ticks_per_second \in {read_i64_int(start_ticks.s)}} : TRUE)
    ELSE start_ticks : start_ticks \in {read_i64_int(duration_nanos.s)}} : TRUE)
    ELSE duration_nanos : duration_nanos \in {read_i64_int(start_time_nanos.s)}} : TRUE)
    ELSE start_time_nanos : start_time_nanos \in {read_i64_int(metadata_offset.s)}} : TRUE)
    ELSE metadata_offset : metadata_offset \in {read_i64_int(constant_pool_offset.s)}} : TRUE)
    ELSE constant_pool_offset : constant_pool_offset \in {read_i64_int(s)}} : TRUE)

\* ConstantPool::try_new: the constant pool of the chunk, read with the
\* types of its metadata.
ConstantPool_try_new(s, header, metadata) ==
    read_constant_pool(s, header.constant_pool_offset, metadata.type_pool)

\* Mutant: the constant pool is read whether it is to be skipped or not.
read_chunk_with_pool(bytes, chunk_size, skip_constant_pool) ==
    (CHOOSE the \in {IF header.ok THEN
        (CHOOSE the \in {IF metadata.ok THEN
        (CHOOSE the \in {IF constant_pool.ok THEN
        Ok([header |-> header.v, metadata |-> metadata.v,
            constant_pool |-> constant_pool.v, reader |-> constant_pool.s], constant_pool.s)
    ELSE constant_pool : constant_pool \in {ConstantPool_try_new(metadata.s, header.v, metadata.v)}} : TRUE)
    ELSE metadata : metadata \in {Metadata_try_new(set_int_encoding(header.s, int_encoding(header.v)), header.v)}} : TRUE)
    ELSE header : header \in {read_chunk_header(seek(ByteStream_new(bytes), 4 + 4 + 8), chunk_size)}} : TRUE)

\* internal_next, from the chunk in memory to the Chunk:
\* Ok([header, metadata, constant_pool, reader]), reader the ChunkReader's
\* stream.
read_chunk(bytes, chunk_size, skip_constant_pool) ==
    (CHOOSE the \in {IF header.ok THEN
        (CHOOSE the \in {IF metadata.ok THEN
        (CHOOSE the \in {IF constant_pool.ok THEN
        Ok([header |-> header.v, metadata |-> metadata.v,
            constant_pool |-> constant_pool.v, reader |-> constant_pool.s], constant_pool.s)
    ELSE constant_pool : constant_pool \in {IF skip_constant_pool THEN Ok(<<>>, metadata.s) ELSE ConstantPool_try_new(metadata.s, header.v, metadata.v)}} : TRUE)
    ELSE metadata : metadata \in {Metadata_try_new(set_int_encoding(header.s, int_encoding(header.v)), header.v)}} : TRUE)
    ELSE header : header \in {read_chunk_header(seek(ByteStream_new(bytes), 4 + 4 + 8), chunk_size)}} : TRUE)

\* `self.reader.chunk_start_position += chunk_size as u64`
\* Mutant: the position is set to the size of the chunk.
next_chunk_start_set(chunk_start_position, chunk_size) == chunk_size

next_chunk_start(chunk_start_position, chunk_size) == chunk_start_position + chunk_size

\* What a call leaves behind: the outcome (for an error its kind and what
\* it carries), the reader's stream and its chunk_start_position.
Outcome(out, err, stream, chunk_start_position, chunk) ==
    [out |-> out, err |-> err.err, carries |-> err.v, stream |-> stream,
     chunk_start_position |-> chunk_start_position, chunk |-> chunk]

NoError == Err("none", <<>>)

\* ChunkIterator::internal_next: "chunk" is Ok(Some(..)), "none" Ok(None),
\* "error" Err(..).  `chunk_size as usize` of a negative size is more than
\* any source holds.
\* Mutant: the rest of the source is loaded, whatever the chunk size says.
internal_next_rest(stream, chunk_start_position, skip_constant_pool) ==
    (CHOOSE the \in {(IF ~magic.ok THEN Outcome("error", magic, magic.s, chunk_start_position, <<>>)
        ELSE IF magic.v = "eof"
        THEN Outcome("none", NoError, magic.s, chunk_start_position, <<>>)
        ELSE (CHOOSE the \in {(IF ~chunk_size.ok
        THEN Outcome("error", chunk_size, chunk_size.s, chunk_start_position, <<>>)
        ELSE (CHOOSE the \in {(IF ~bytes.ok THEN Outcome("error", bytes, bytes.s, chunk_start_position, <<>>)
        ELSE (CHOOSE the \in {(IF ~chunk.ok THEN Outcome("error", chunk, bytes.s, chunk_start_position, <<>>)
        ELSE Outcome("chunk", NoError, bytes.s,
                     next_chunk_start(chunk_start_position, chunk_size.v), chunk.v))
             : chunk \in {read_chunk(bytes.v, chunk_size.v, skip_constant_pool)}} : TRUE))
             : bytes \in {read_as_bytes(seek(chunk_size.s, chunk_start_position), Len(stream.buf) - chunk_start_position)}} : TRUE))
             : chunk_size \in {read_version_and_size(magic.s)}} : TRUE))
    : magic \in {read_magic(seek(set_int_encoding(stream, "Raw"), chunk_start_position))}} : TRUE)

internal_next(stream, chunk_start_position, skip_constant_pool) ==
    (CHOOSE the \in {(IF ~magic.ok THEN Outcome("error", magic, magic.s, chunk_start_position, <<>>)
        ELSE IF magic.v = "eof"
        THEN Outcome("none", NoError, magic.s, chunk_start_position, <<>>)
        ELSE (CHOOSE the \in {(IF ~chunk_size.ok
        THEN Outcome("error", chunk_size, chunk_size.s, chunk_start_position, <<>>)
        ELSE (CHOOSE the \in {(IF ~bytes.ok THEN Outcome("error", bytes, bytes.s, chunk_start_position, <<>>)
        ELSE (CHOOSE the \in {(IF ~chunk.ok THEN Outcome("error", chunk, bytes.s, chunk_start_position, <<>>)
        ELSE Outcome("chunk", NoError, bytes.s,
                     next_chunk_start(chunk_start_position, chunk_size.v), chunk.v))
             : chunk \in {read_chunk(bytes.v, chunk_size.v, skip_constant_pool)}} : TRUE))
             : bytes \in {read_as_bytes(seek(chunk_size.s, chunk_start_position), IF chunk_size.v < 0 THEN U64Huge ELSE chunk_size.v)}} : TRUE))
             : chunk_size \in {read_version_and_size(magic.s)}} : TRUE))
    : magic \in {read_magic(seek(set_int_encoding(stream, "Raw"), chunk_start_position))}} : TRUE)

----------------------------------------------------------------------------
(* Harness for the chunk iterator: a file of chunks laid end to end, built *)
(* from templates, the last chunk possibly damaged.  Each chunk carries    *)
(* its ordinal in the file as its start time.                              *)

MaxChunks == 2

\* Calls of next() on one iterator.
MaxChunkCalls == MaxChunks + 2

\* Big-endian, w bytes, of n >= 0.
RECURSIVE BE(_, _)
BE(n, w) == IF w = 0 THEN <<>> ELSE BE(n \div 256, w - 1) \o <<n % 256>>

\* An integer of w bytes as the encoding writes it.
IntBytes(enc, n, w) == IF enc = "Raw" THEN BE(n, w) ELSE VarInt(n)

StrBytes(enc, text) ==
    <<STRING_ENCODING_LATIN1_BYTE_ARRAY>> \o IntBytes(enc, Len(text), 4) \o text

\* An element of the metadata tree: its name, its attributes and children.
El(name, attrs, children) == [name |-> T(name), attrs |-> attrs, children |-> children]

Attr(key, value) == <<T(key), T(value)>>

StrIndex(strings, text) == CHOOSE i \in 0..(Len(strings) - 1) : T(strings[i + 1]) = text

RECURSIVE ElBytes(_, _, _)
ElBytes(enc, strings, element) ==
    (CHOOSE the \in {(IntBytes(enc, Len(el.attrs), 4)
    \o Flatten([i \in 1..Len(el.attrs) |->
                   IntBytes(enc, StrIndex(strings, el.attrs[i][1]), 4)
                   \o IntBytes(enc, StrIndex(strings, el.attrs[i][2]), 4)])
    \o IntBytes(enc, Len(el.children), 4)
    \o Flatten([i \in 1..Len(el.children) |->
                   IntBytes(enc, StrIndex(strings, el.children[i].name), 4)
                   \o ElBytes(enc, strings, el.children[i])]))
    : el \in {element}} : TRUE)

\* The metadata event: size, type, start, duration, id, strings, tree.
MdEventBytes(enc, strings, root) ==
    (CHOOSE the \in {(IntBytes(enc, Len(rest) + 4, 4) \o rest)
    : rest \in {IntBytes(enc, EVENT_TYPE_METADATA, 8) \o IntBytes(enc, 0, 8) \o IntBytes(enc, 0, 8) \o IntBytes(enc, 0, 8) \o IntBytes(enc, Len(strings), 4) \o Flatten([i \in 1..Len(strings) |-> StrBytes(enc, T(strings[i]))]) \o IntBytes(enc, StrIndex(strings, root.name), 4) \o ElBytes(enc, strings, root)}} : TRUE)

\* The templates: the feature flags and the encoding the body is written
\* in, the strings and the tree of the metadata, the pools of the one
\* constant-pool event (none if empty), and what the chunk holds: the ids of
\* its classes and its constants.
ChTemplates ==
    [bare |->
        [features |-> 2, enc |-> "Raw",
         strings |-> <<"root">>, root |-> El("root", <<>>, <<>>),
         pools |-> <<>>, classes |-> {}, constants |-> <<>>],
     ints |->
        [features |-> 1, enc |-> "Compressed",
         strings |-> <<"root", "metadata", "class", "id", "name", "1", "int">>,
         root |-> El("root", <<>>, <<
                     El("metadata", <<>>, <<
                         El("class", <<Attr("id", "1"), Attr("name", "int")>>, <<>>)>>)>>),
         pools |-> <<CpPoolOf(1, <<CpConst(1, 5)>>)>>,
         classes |-> {1}, constants |-> (<<1, 1>> :> Primitive("Integer", 5))],
     tick |->
        [features |-> 3, enc |-> "Compressed",
         strings |-> <<"root", "metadata", "region", "class", "field", "annotation", "id",
                       "name", "value", "1", "7", "20", "int", "jdk.Tick", "tick",
                       "jdk.jfr.Timespan", "TICKS">>,
         root |-> El("root", <<>>, <<
                     El("metadata", <<>>, <<
                         El("class", <<Attr("id", "1"), Attr("name", "int")>>, <<>>),
                         El("class", <<Attr("id", "7"), Attr("name", "jdk.jfr.Timespan")>>, <<>>),
                         El("class", <<Attr("id", "20"), Attr("name", "jdk.Tick")>>, <<
                             El("field", <<Attr("name", "tick"), Attr("class", "1")>>, <<
                                 El("annotation",
                                    <<Attr("class", "7"), Attr("value", "TICKS")>>, <<>>)>>)>>)>>),
                     El("region", <<>>, <<>>)>>),
         pools |-> <<CpPoolOf(20, <<CpConst(1, 3)>>)>>,
         classes |-> {1, 7, 20},
         constants |-> (<<20, 1>> :> Object(20, <<Primitive("Integer", 3)>>))]]

ChTemplateNames == DOMAIN ChTemplates

\* The chunk of a template, the k-th of its file.
ChChunkBytes(name, k) ==
    (CHOOSE the \in {((CHOOSE the \in {((CHOOSE the \in {(MAGIC \o BE(2, 2) \o BE(0, 2)
        \o BE(HEADER_SIZE + Len(cp) + Len(md), 8)
        \o BE(IF cp = <<>> THEN 0 ELSE HEADER_SIZE, 8)
        \o BE(HEADER_SIZE + Len(cp), 8)
        \o BE(k, 8) \o BE(0, 8) \o BE(0, 8) \o BE(1, 8)
        \o BE(t.features, 4)
        \o cp \o md)
    : md \in {MdEventBytes(t.enc, t.strings, t.root)}} : TRUE))
    : cp \in {IF t.pools = <<>> THEN <<>> ELSE CpEventBytes(t.pools, 1, EVENT_TYPE_CONSTANT_POOL, 0)}} : TRUE))
    : t \in {ChTemplates[name]}} : TRUE)

\* The chunks of the templates at each place of a file.
ChChunks == [name \in ChTemplateNames |-> [k \in 1..MaxChunks |-> ChChunkBytes(name, k)]]

ChSizeOf(name) == Len(ChChunks[name][1])

ChLayouts == UNION {[1..n -> ChTemplateNames] : n \in 0..MaxChunks}

\* The sum of the sizes of the chunks 1..k of a layout.
RECURSIVE ChSizeSum(_, _)
ChSizeSum(layout, k) ==
    IF k = 0 THEN 0 ELSE ChSizeSum(layout, k - 1) + ChSizeOf(layout[k])

Damage(kind, at) == [kind |-> kind, at |-> at]

\* The version bytes of (major, minor) as one number.
Version(major, minor) == major * 65536 + minor

ChVersions == {Version(0, 0), Version(3, 0), Version(3, 1), Version(1, 0), Version(1, 1), Version(2, 1)}

\* What may be wrong with the last chunk of a layout: the file ends `at`
\* bytes into it, byte `at` of its magic is another, its version bytes are
\* those of `at`, its chunk_size field says `at`, or its constant_pool_offset
\* is `at` bytes past the end of the chunk.
ChDamages(layout) ==
    IF layout = <<>> THEN {Damage("none", 0)}
    ELSE {Damage("none", 0)}
         \cup {Damage("cut", at) : at \in 1..(ChSizeOf(layout[Len(layout)]) - 1)}
         \cup {Damage("magic", at) : at \in 0..3}
         \cup {Damage("version", at) : at \in ChVersions}
         \cup {Damage("size", at) : at \in {0 - 1, 0, 16, HEADER_SIZE - 1, HEADER_SIZE}}
         \cup {Damage("pool", at) : at \in {0}}

ChDamaged(bytes, damage) ==
    IF damage.kind = "cut" THEN SubSeq(bytes, 1, damage.at)
    ELSE IF damage.kind = "magic"
    THEN [bytes EXCEPT ![damage.at + 1] = (@ + 1) % 256]
    ELSE IF damage.kind = "version"
    THEN SubSeq(bytes, 1, 4) \o BE(damage.at, 4) \o SubSeq(bytes, 9, Len(bytes))
    ELSE IF damage.kind = "size"
    THEN SubSeq(bytes, 1, 8) \o BE(damage.at, 8) \o SubSeq(bytes, 17, Len(bytes))
    ELSE IF damage.kind = "pool"
    THEN SubSeq(bytes, 1, 16) \o BE(Len(bytes) + damage.at, 8) \o SubSeq(bytes, 25, Len(bytes))
    ELSE bytes

ChFileBytes(layout, damage) ==
    Flatten([k \in 1..Len(layout) |->
                IF k = Len(layout) THEN ChDamaged(ChChunks[layout[k]][k], damage)
                ELSE ChChunks[layout[k]][k]])

ChOff ==
    /\ chLayout = <<>>
    /\ chDamage = Damage("none", 0)
    /\ chSkip = FALSE
    /\ chStream = ByteStream_new(<<>>)
    /\ chStart = 0
    /\ chItems = <<>>
    /\ chPc = "off"

\* JfrReader::new, then chunks() or chunk_metadata().
ChInit ==
    /\ chLayout \in ChLayouts
    /\ chDamage \in ChDamages(chLayout)
    /\ chSkip \in BOOLEAN
    /\ chStream = ByteStream_new(ChFileBytes(chLayout, chDamage))
    /\ chStart = 0
    /\ chItems = <<>>
    /\ chPc = "iterating"

\* What a call of next() returned, with the position it read at.
\* `pos` is where the call left the source, `encoding` the integer
\* encoding of the ChunkReader's stream.
ChItem(o, at) ==
    IF o.out = "chunk"
    THEN [kind |-> "chunk", at |-> at, err |-> "none", carries |-> <<>>,
          pos |-> o.stream.pos,
          chunk_size |-> o.chunk.header.chunk_size,
          ordinal |-> o.chunk.header.start_time_nanos,
          header |-> o.chunk.header,
          encoding |-> o.chunk.reader.enc,
          classes |-> DOMAIN o.chunk.metadata.type_pool,
          type_pool |-> o.chunk.metadata.type_pool,
          constants |-> o.chunk.constant_pool]
    ELSE [kind |-> o.out, at |-> at, err |-> o.err, carries |-> o.carries,
          pos |-> o.stream.pos, chunk_size |-> 0, ordinal |-> 0,
          header |-> <<>>, encoding |-> "Raw",
          classes |-> {}, type_pool |-> <<>>, constants |-> <<>>]

\* ChunkIterator::next
\* Mutant: after an error the reader stands at the end of the source.
ChunkIterator_next_skipping ==
    /\ chPc = "iterating"
    /\ Len(chItems) < MaxChunkCalls
    /\ \E o \in {internal_next(chStream, chStart, chSkip)} :
        /\ chStream' = o.stream
        /\ chStart' = IF o.out = "error" THEN Len(chStream.buf) ELSE o.chunk_start_position
        /\ chItems' = Append(chItems, ChItem(o, chStart))
    /\ UNCHANGED <<chLayout, chDamage, chSkip, chPc>>
    /\ UNCHANGED <<bsVars, vdVars, eiVars, acVars, cpVars, deVars, stVars, mdVars>>

ChunkIterator_next ==
    /\ chPc = "iterating"
    /\ Len(chItems) < MaxChunkCalls
    /\ \E o \in {internal_next(chStream, chStart, chSkip)} :
        /\ chStream' = o.stream
        /\ chStart' = o.chunk_start_position
        /\ chItems' = Append(chItems, ChItem(o, chStart))
    /\ UNCHANGED <<chLayout, chDamage, chSkip, chPc>>
    /\ UNCHANGED <<bsVars, vdVars, eiVars, acVars, cpVars, deVars, stVars, mdVars>>

ChNext == ChunkIterator_next

----------------------------------------------------------------------------
(* The deserializer: serde's Deserializer over a ValueDescriptor, of       *)
(* src/reader/de.rs, with the visitors of the types deserialized into.     *)

\* What T::deserialize comes to: Ok(value), Err(kind(msg)), a panic, or no
\* return at all.
DeOk(v) == [out |-> "ok", v |-> v, kind |-> "none", msg |-> <<>>]

DeErr(kind, msg) == [out |-> "err", v |-> <<>>, kind |-> kind, msg |-> msg]

DePanic == [out |-> "panic", v |-> <<>>, kind |-> "none", msg |-> <<>>]

DeDiverges == [out |-> "diverges", v |-> <<>>, kind |-> "none", msg |-> <<>>]

\* impl serde::de::Error for Error: custom(msg)
custom(msg) == DeErr("DeserializeError", msg)

\* The types deserialized into: i32, i64, bool, String, Option<T>, Vec<T>
\* and HashMap<String, T>.
TNone == [t |-> "none"]

TPrim(name) == [t |-> "prim", name |-> name, of |-> TNone]

TOption(of) == [t |-> "option", name |-> "Option", of |-> of]

TSeq(of) == [t |-> "seq", name |-> "Vec", of |-> of]

TMap(of) == [t |-> "map", name |-> "HashMap", of |-> of]

\* visitor.visit_i32 .. visitor.visit_borrowed_str on the visitor of the
\* target: an integer goes into an integer type it fits, a bool into bool,
\* a str or a char into String; every other visit is serde's invalid_type,
\* made by Error::custom.  (Integers are exact below Sat, so they fit i32.)
visit_primitive(target, value) ==
    IF target.t # "prim" THEN custom(<<"invalid type", value.prim>>)
    ELSE IF target.name \in {"i32", "i64"} /\ value.prim \in {"Integer", "Short", "Byte"}
    THEN DeOk(value.val)
    ELSE IF target.name = "i64" /\ value.prim = "Long" THEN DeOk(value.val)
    ELSE IF target.name = "i32" /\ value.prim = "Long"
    THEN IF value.val > 0 - Sat /\ value.val < Sat THEN DeOk(value.val)
         ELSE custom(<<"invalid value", value.prim>>)
    ELSE IF target.name = "bool" /\ value.prim = "Boolean" THEN DeOk(value.val)
    ELSE IF target.name = "String" /\ value.prim = "String" THEN DeOk(value.val)
    ELSE IF target.name = "String" /\ value.prim = "Character" THEN DeOk(<<value.val>>)
    ELSE custom(<<"invalid type", value.prim>>)

\* MapAccess::next_key_seed of ObjectDeserializer: Ok(Some(name of the
\* field)), Ok(None) after the last field.  `t.fields[self.field_idx]`
\* panics when the type declares fewer fields than the object holds.
next_key_seed(obj, field_idx, type_pool) ==
    IF field_idx > Len(obj.fields) THEN DeOk(Absent)
    ELSE (CHOOSE the \in {(IF ~t.some THEN DeErr("ClassNotFound", <<obj.class_id>>)
                 ELSE IF field_idx > Len(t.desc.fields) THEN DePanic
                 ELSE DeOk(Present(t.desc.fields[field_idx].name)))
         : t \in {TypePool_get(type_pool, obj.class_id)}} : TRUE)

RECURSIVE deserialize(_, _, _, _)
RECURSIVE deserialize_any(_, _, _, _, _)

\* visit_seq of Vec<T>: next_element_seed of ArrayDeserializer until None.
RECURSIVE visit_seq(_, _, _, _, _, _)
visit_seq(target, array, array_idx, acc, type_pool, constant_pool) ==
    IF array_idx > Len(array) THEN DeOk(acc)
    ELSE (CHOOSE the \in {(IF r.out = "ok"
                 THEN visit_seq(target, array, array_idx + 1, Append(acc, r.v), type_pool,
                                constant_pool)
                 ELSE r)
         : r \in {deserialize(array[array_idx], target.of, type_pool, constant_pool)}} : TRUE)

\* visit_map of HashMap<String, T>: next_key_seed and next_value_seed of
\* ObjectDeserializer until the key is None.
RECURSIVE visit_map(_, _, _, _, _, _)
visit_map(target, obj, field_idx, acc, type_pool, constant_pool) ==
    (CHOOSE the \in {(IF key.out # "ok" THEN key
        ELSE IF ~key.v.some THEN DeOk(acc)
        ELSE (CHOOSE the \in {(IF r.out = "ok"
                     THEN visit_map(target, obj, field_idx + 1,
                                    Append(acc, <<key.v.v, r.v>>), type_pool, constant_pool)
                     ELSE r)
             : r \in {deserialize(obj.fields[field_idx], target.of, type_pool,
                                  constant_pool)}} : TRUE))
    : key \in {next_key_seed(obj, field_idx, type_pool)}} : TRUE)

\* Deserializer::deserialize_any.  A reference is resolved by calling
\* deserialize_any again on the entry with the same visitor; `seen` holds the
\* keys resolved on the way, and coming back to one of them with the same
\* visitor and the same pool is a call that never returns.
deserialize_any(value, target, type_pool, constant_pool, seen) ==
    IF value.kind = "Primitive" THEN
        IF value.prim = "NullString" THEN custom(<<"Unexpected null string">>)
        ELSE visit_primitive(target, value)
    ELSE IF value.kind = "Object" THEN
        IF target.t = "map" THEN visit_map(target, value, 1, <<>>, type_pool, constant_pool)
        ELSE custom(<<"invalid type", "map">>)
    ELSE IF value.kind = "Array" THEN
        IF target.t = "seq"
        THEN visit_seq(target, value.elems, 1, <<>>, type_pool, constant_pool)
        ELSE custom(<<"invalid type", "seq">>)
    ELSE (CHOOSE the \in {(IF ~e.some
                 THEN custom(<<"Not found in constant pool", value.class_id,
                               value.constant_index>>)
                 ELSE IF <<value.class_id, value.constant_index>> \in seen THEN DeDiverges
                 ELSE deserialize_any(e.v, target, type_pool, constant_pool,
                                      seen \cup {<<value.class_id, value.constant_index>>}))
         : e \in {ConstantPool_get(constant_pool, value.class_id, value.constant_index)}} : TRUE)

\* visitor.visit_some(deserializer) of Option<T>: T::deserialize(..).map(Some)
visit_some(value, target, type_pool, constant_pool) ==
    (CHOOSE the \in {(IF r.out = "ok" THEN DeOk(Present(r.v)) ELSE r)
    : r \in {deserialize(value, target.of, type_pool, constant_pool)}} : TRUE)

\* Mutant: a reference to a missing entry is an error for an optional
\* target too.
deserialize_option_strict(value, target, type_pool, constant_pool) ==
    IF value.kind = "Primitive" /\ value.prim = "NullString" THEN DeOk(Absent)
    ELSE IF value.kind = "ConstantPool"
    THEN (CHOOSE the \in {(IF e.some THEN visit_some(e.v, target, type_pool, constant_pool)
                 ELSE custom(<<"Not found in constant pool", value.class_id,
                               value.constant_index>>))
         : e \in {ConstantPool_get(constant_pool, value.class_id, value.constant_index)}} : TRUE)
    ELSE visit_some(value, target, type_pool, constant_pool)

\* Deserializer::deserialize_option; visit_none of Option<T> is Ok(None).
deserialize_option(value, target, type_pool, constant_pool) ==
    IF value.kind = "Primitive" /\ value.prim = "NullString" THEN DeOk(Absent)
    ELSE IF value.kind = "ConstantPool"
    THEN (CHOOSE the \in {(IF e.some THEN visit_some(e.v, target, type_pool, constant_pool)
                 ELSE DeOk(Absent))
         : e \in {ConstantPool_get(constant_pool, value.class_id, value.constant_index)}} : TRUE)
    ELSE visit_some(value, target, type_pool, constant_pool)

\* T::deserialize(Deserializer::new(chunk, value)): Option<T> asks for
\* deserialize_option, every other type for a method that forward_to_
\* deserialize_any! sends to deserialize_any.
deserialize(value, target, type_pool, constant_pool) ==
    IF target.t = "option" THEN deserialize_option(value, target, type_pool, constant_pool)
    ELSE deserialize_any(value, target, type_pool, constant_pool, {})

----------------------------------------------------------------------------
(* Harness for the deserializer: a value of a chunk, the chunk's constant  *)
(* pool (entries may be absent, null strings, or references, to themselves *)
(* too) and the type deserialized into.                                    *)

DeNull == Primitive("NullString", <<>>)

DeThread(name) == Object(3, <<name, Primitive("Integer", 7)>>)

\* For each key, the entries a pool may hold under it.
DeEntries ==
    [k \in {<<2, 1>>, <<2, 2>>, <<3, 1>>} |->
        CASE k = <<2, 1>> -> {Primitive("String", T("x")), DeNull, ConstantPoolRef(2, 1),
                              ConstantPoolRef(2, 2)}
          [] k = <<2, 2>> -> {Primitive("String", T("x")), DeNull, ConstantPoolRef(2, 1)}
          [] k = <<3, 1>> -> {DeThread(Primitive("String", T("x"))), DeThread(DeNull),
                              DeThread(ConstantPoolRef(2, 1))}]

DePools ==
    UNION {{p \in [keys -> UNION {DeEntries[k] : k \in keys}] :
                \A k \in keys : p[k] \in DeEntries[k]} : keys \in SUBSET DOMAIN DeEntries}

\* The values deserialized, one after the other.
DeValues ==
    <<Primitive("Integer", 7), Primitive("Long", 7), Primitive("Boolean", TRUE),
      Primitive("String", T("x")), DeNull,
      ConstantPoolRef(2, 1), ConstantPoolRef(3, 1),
      DeThread(Primitive("String", T("x"))), DeThread(DeNull), DeThread(ConstantPoolRef(2, 1)),
      Object(99, <<Primitive("Integer", 7)>>), Object(99, <<>>),
      Object(16, <<Primitive("Integer", 7)>>),
      Array(<<ConstantPoolRef(2, 1), DeNull>>), Array(<<Primitive("Integer", 7)>>)>>

DeTargets ==
    {TPrim("i32"), TPrim("i64"), TPrim("bool"), TPrim("String"),
     TOption(TPrim("String")), TOption(TPrim("i32")), TOption(TOption(TPrim("String"))),
     TSeq(TPrim("i32")), TSeq(TPrim("String")), TSeq(TOption(TPrim("String"))),
     TMap(TPrim("i32")), TMap(TOption(TPrim("String"))), TOption(TMap(TPrim("i32")))}

DeOff ==
    /\ deValue = Primitive("none", <<>>)
    /\ deTarget = TNone
    /\ dePool = <<>>
    /\ deResult = DeOk(<<>>)
    /\ dePc = "off"

DeInit ==
    /\ \E i \in 1..Len(DeValues) : deValue = DeValues[i]
    /\ deTarget \in DeTargets
    /\ dePool \in DePools
    /\ deResult = DeOk(<<>>)
    /\ dePc = "ready"

\* T::deserialize(Deserializer::new(&chunk, &value))
DeDeserialize ==
    /\ dePc = "ready"
    /\ deResult' = deserialize(deValue, deTarget, VdPool, dePool)
    /\ dePc' = "done"
    /\ UNCHANGED <<deValue, deTarget, dePool>>
    /\ UNCHANGED <<bsVars, vdVars, eiVars, acVars, cpVars, chVars, stVars, mdVars>>

DeNext == DeDeserialize

----------------------------------------------------------------------------
(* Harness for read_string: a string value written under one of the six    *)
(* encoding tags in one of the two integer encodings, bytes of something   *)
(* else after it.                                                          *)

\* The longest text written, in characters (the text of the unit tests
\* apart).
MaxTextLen == 2

\* The UTF-8 bytes of a code point.
Utf8Bytes(c) ==
    IF c < 128 THEN <<c>>
    ELSE IF c < 2048 THEN <<192 + (c \div 64), 128 + (c % 64)>>
    ELSE IF c < 65536
    THEN <<224 + (c \div 4096), 128 + ((c \div 64) % 64), 128 + (c % 64)>>
    ELSE <<240 + (c \div 262144), 128 + ((c \div 4096) % 64), 128 + ((c \div 64) % 64),
           128 + (c % 64)>>

\* A string value as the writer knows it: the tag it is written under, its
\* text (code points) and its index in the constant pool.
StCaseOf(tag, text, index) == [tag |-> tag, text |-> text, index |-> index]

\* The characters written under a tag: h, e-acute and y-diaeresis fit
\* Latin-1; U+7FFF and U+8A9E are one 16-bit code unit each; U+1F600 takes
\* four bytes of UTF-8.
StAlphabet(tag) ==
    IF tag = STRING_ENCODING_LATIN1_BYTE_ARRAY THEN {104, 233, 255}
    ELSE IF tag = STRING_ENCODING_CHAR_ARRAY THEN {104, 233, 32767, 35486}
    ELSE {104, 233, 35486, 128512}

\* "hello,world", the text of the unit tests.
StHello == <<104, 101, 108, 108, 111, 44, 119, 111, 114, 108, 100>>

StTexts(tag) ==
    UNION {[1..n -> StAlphabet(tag)] : n \in 0..MaxTextLen} \cup {StHello}

StIndexes == {0, 1, 55301, 0 - 1}

StCases ==
    {StCaseOf(STRING_ENCODING_NULL, <<>>, 0), StCaseOf(STRING_ENCODING_EMPTY_STRING, <<>>, 0)}
    \cup {StCaseOf(STRING_ENCODING_CONSTANT_POOL, <<>>, index) : index \in StIndexes}
    \cup UNION {{StCaseOf(tag, text, 0) : text \in StTexts(tag)}
                : tag \in {STRING_ENCODING_UTF8_BYTE_ARRAY, STRING_ENCODING_CHAR_ARRAY,
                           STRING_ENCODING_LATIN1_BYTE_ARRAY}}

\* The bytes of a string value: the tag, then nothing, the index as an i64,
\* or the size as an i32 and the UTF-8 bytes, the code units as i16s or the
\* Latin-1 bytes.
StEncode(enc, case) ==
    <<case.tag>> \o
    (IF case.tag \in {STRING_ENCODING_NULL, STRING_ENCODING_EMPTY_STRING} THEN <<>>
     ELSE IF case.tag = STRING_ENCODING_CONSTANT_POOL THEN IntBytes(enc, case.index, 8)
     ELSE IF case.tag = STRING_ENCODING_UTF8_BYTE_ARRAY
     THEN (CHOOSE the \in {(IntBytes(enc, Len(utf8), 4) \o utf8)
          : utf8 \in {Flatten([i \in 1..Len(case.text) |-> Utf8Bytes(case.text[i])])}} : TRUE)
     ELSE IF case.tag = STRING_ENCODING_CHAR_ARRAY
     THEN IntBytes(enc, Len(case.text), 4)
          \o Flatten([i \in 1..Len(case.text) |-> IntBytes(enc, case.text[i], 2)])
     ELSE IntBytes(enc, Len(case.text), 4) \o case.text)

\* The StringType of a string value.
StValue(case) ==
    IF case.tag = STRING_ENCODING_NULL THEN StringNull
    ELSE IF case.tag = STRING_ENCODING_EMPTY_STRING THEN StringEmpty
    ELSE IF case.tag = STRING_ENCODING_CONSTANT_POOL THEN StringConstantPool(I64OfInt(case.index))
    ELSE StringRaw(case.text)

StTails == {<<>>, <<3, 0>>}

StOff ==
    /\ stCase = StCaseOf(STRING_ENCODING_NULL, <<>>, 0)
    /\ stStream = ByteStream_new(<<>>)
    /\ stResult = Err("none", ByteStream_new(<<>>))
    /\ stPc = "off"

StInit ==
    /\ stCase \in StCases
    /\ \E enc \in {"Raw", "Compressed"}, tail \in StTails :
          stStream = set_int_encoding(ByteStream_new(StEncode(enc, stCase) \o tail), enc)
    /\ stResult = Err("none", stStream)
    /\ stPc = "ready"

\* stream.read_string()
StReadString ==
    /\ stPc = "ready"
    /\ stResult' = read_string(stStream)
    /\ stPc' = "done"
    /\ UNCHANGED <<stCase, stStream>>
    /\ UNCHANGED <<bsVars, vdVars, eiVars, acVars, cpVars, chVars, deVars, mdVars>>

StNext == StReadString

----------------------------------------------------------------------------
(* Harness for the metadata decoder: one metadata event, written with raw  *)
(* integers.  Its tree is                                                   *)
(*   root > region, metadata > class jdk.Tick  (id 20) > annotation (class *)
(*                                                         7), field tick  *)
(*                             class jdk.Names (id 2)  > field tick        *)
(* from which attributes of the first class and of its field may be left   *)
(* out, into which one more element (the stray) may be put as the first    *)
(* child of the root, the region, the first class or its field, and whose  *)
(* second field may take its name from either of the two entries of the    *)
(* string table that hold "tick".  No class of id 7 is declared.           *)

MdStrings ==
    <<"root", "metadata", "region", "class", "field", "annotation", "setting", "bogus",
      "id", "name", "1", "2", "7", "20", "jdk.Tick", "jdk.Names", "tick",
      "jdk.jfr.Experimental", "tick">>

\* The first and the last index of a string in the table.
MdIdx(text) ==
    CHOOSE i \in 0..(Len(MdStrings) - 1) :
        /\ MdStrings[i + 1] = text
        /\ \A j \in 0..(i - 1) : MdStrings[j + 1] # text

MdIdxLast(text) ==
    CHOOSE i \in 0..(Len(MdStrings) - 1) :
        /\ MdStrings[i + 1] = text
        /\ \A j \in (i + 1)..(Len(MdStrings) - 1) : MdStrings[j + 1] # text

\* An element as it is written: the index of its name, its attributes as
\* pairs of indexes, its children.
MdEl(name, attrs, children) == [name |-> MdIdx(name), attrs |-> attrs, children |-> children]

MdAttr(key, value) == <<MdIdx(key), MdIdx(value)>>

RECURSIVE MdElBytes(_)
MdElBytes(element) ==
    (CHOOSE the \in {(BE(Len(el.attrs), 4)
    \o Flatten([i \in 1..Len(el.attrs) |-> BE(el.attrs[i][1], 4) \o BE(el.attrs[i][2], 4)])
    \o BE(Len(el.children), 4)
    \o Flatten([i \in 1..Len(el.children) |->
                   BE(el.children[i].name, 4) \o MdElBytes(el.children[i])]))
    : el \in {element}} : TRUE)

\* The stray: the element it is put into, its name, and the name of its one
\* child if it has one.
MdStrayOf(parent, name, inner) == [parent |-> parent, name |-> name, inner |-> inner]

MdNoStray == MdStrayOf("none", "none", "none")

MdParents == {"root", "region", "class", "field"}

MdNames == {"metadata", "region", "class", "field", "annotation", "setting"}

MdStrays ==
    {MdNoStray}
    \cup {MdStrayOf(parent, "bogus", "none") : parent \in MdParents}
    \cup {MdStrayOf(parent, name, inner) :
             parent \in MdParents, name \in MdNames, inner \in {"none", "bogus"}}

\* A stray class declares id 7 under the name jdk.jfr.Experimental.
MdStrayEl(stray) ==
    MdEl(stray.name,
         IF stray.name = "class"
         THEN <<MdAttr("id", "7"), MdAttr("name", "jdk.jfr.Experimental")>> ELSE <<>>,
         IF stray.inner = "none" THEN <<>> ELSE <<MdEl(stray.inner, <<>>, <<>>)>>)

MdCaseOf(class_attrs, field_attrs, stray, dup) ==
    [class_attrs |-> class_attrs, field_attrs |-> field_attrs, stray |-> stray, dup |-> dup]

MdCases ==
    {MdCaseOf(class_attrs, field_attrs, stray, dup) :
        class_attrs \in SUBSET {"id", "name"}, field_attrs \in SUBSET {"name", "class"},
        stray \in MdStrays, dup \in BOOLEAN}

MdStrayAt(case, parent) ==
    IF case.stray.parent = parent THEN <<MdStrayEl(case.stray)>> ELSE <<>>

MdTree(case) ==
    MdEl("root", <<>>,
         MdStrayAt(case, "root") \o <<
         MdEl("region", <<>>, MdStrayAt(case, "region")),
         MdEl("metadata", <<>>, <<
             MdEl("class",
                  (IF "id" \in case.class_attrs THEN <<MdAttr("id", "20")>> ELSE <<>>)
                  \o (IF "name" \in case.class_attrs THEN <<MdAttr("name", "jdk.Tick")>>
                      ELSE <<>>),
                  MdStrayAt(case, "class") \o <<
                  MdEl("annotation", <<MdAttr("class", "7")>>, <<>>),
                  MdEl("field",
                       (IF "name" \in case.field_attrs THEN <<MdAttr("name", "tick")>>
                        ELSE <<>>)
                       \o (IF "class" \in case.field_attrs THEN <<MdAttr("class", "1")>>
                           ELSE <<>>),
                       MdStrayAt(case, "field"))>>),
             MdEl("class", <<MdAttr("id", "2"), MdAttr("name", "jdk.Names")>>, <<
                  MdEl("field",
                       <<<<MdIdx("name"),
                           IF case.dup THEN MdIdxLast("tick") ELSE MdIdx("tick")>>,
                         MdAttr("class", "1")>>, <<>>)>>)>>)>>)

\* The metadata event: size, type, start, duration, id, strings, tree.
MdBytes(case) ==
    (CHOOSE the \in {(BE(Len(rest) + 4, 4) \o rest)
    : rest \in {BE(EVENT_TYPE_METADATA, 8) \o BE(0, 8) \o BE(0, 8) \o BE(0, 8)
                \o BE(Len(MdStrings), 4)
                \o Flatten([i \in 1..Len(MdStrings) |-> StrBytes("Raw", T(MdStrings[i]))])
                \o BE(MdIdx("root"), 4) \o MdElBytes(MdTree(case))}} : TRUE)

\* The header of the chunk: the metadata event is at offset 0.
MdHeader == ChunkHeader(0, 0, 0, 0, 0, 0, 1, 0)

MdOff ==
    /\ mdCase = MdCaseOf({}, {}, MdNoStray, FALSE)
    /\ mdStream = ByteStream_new(<<>>)
    /\ mdResult = Err("none", ByteStream_new(<<>>))
    /\ mdPc = "off"

MdInit ==
    /\ mdCase \in MdCases
    /\ mdStream = ByteStream_new(MdBytes(mdCase))
    /\ mdResult = Err("none", mdStream)
    /\ mdPc = "ready"

\* Metadata::try_new(&mut stream, &header)
MdTryNew ==
    /\ mdPc = "ready"
    /\ mdResult' = Metadata_try_new(mdStream, MdHeader)
    /\ mdPc' = "done"
    /\ UNCHANGED <<mdCase, mdStream>>
    /\ UNCHANGED <<bsVars, vdVars, eiVars, acVars, cpVars, chVars, deVars, stVars>>

MdNext == MdTryNew

----------------------------------------------------------------------------
(* The specifications: one per component, the other components idle.       *)

SpecBytesInit == BsInit /\ VdOff /\ EiOff /\ AcOff /\ CpOff /\ ChOff /\ DeOff /\ StOff /\ MdOff

SpecBytes == SpecBytesInit /\ [][BsNext]_vars

SpecValueInit == VdInit /\ BsOff /\ EiOff /\ AcOff /\ CpOff /\ ChOff /\ DeOff /\ StOff /\ MdOff

SpecValue == SpecValueInit /\ [][VdNext]_vars

SpecEventsInit == EiInit /\ BsOff /\ VdOff /\ AcOff /\ CpOff /\ ChOff /\ DeOff /\ StOff /\ MdOff

SpecEvents == SpecEventsInit /\ [][EiNext]_vars

SpecAccessInit == AcInit /\ BsOff /\ VdOff /\ EiOff /\ CpOff /\ ChOff /\ DeOff /\ StOff /\ MdOff

SpecAccess == SpecAccessInit /\ [][AcNext]_vars

SpecPoolInit == CpInit /\ BsOff /\ VdOff /\ EiOff /\ AcOff /\ ChOff /\ DeOff /\ StOff /\ MdOff

SpecPool == SpecPoolInit /\ [][CpNext]_vars

SpecChunksInit == ChInit /\ BsOff /\ VdOff /\ EiOff /\ AcOff /\ CpOff /\ DeOff /\ StOff /\ MdOff

SpecChunks == SpecChunksInit /\ [][ChNext]_vars

SpecDeInit == DeInit /\ BsOff /\ VdOff /\ EiOff /\ AcOff /\ CpOff /\ ChOff /\ StOff /\ MdOff

SpecDe == SpecDeInit /\ [][DeNext]_vars

SpecStringsInit == StInit /\ BsOff /\ VdOff /\ EiOff /\ AcOff /\ CpOff /\ ChOff /\ DeOff /\ MdOff

SpecStrings == SpecStringsInit /\ [][StNext]_vars

SpecMetadataInit == MdInit /\ BsOff /\ VdOff /\ EiOff /\ AcOff /\ CpOff /\ ChOff /\ DeOff /\ StOff

SpecMetadata == SpecMetadataInit /\ [][MdNext]_vars

----------------------------------------------------------------------------
(* Claims.                                                                 *)

\* A value decoded under a declaration of type class_id has the shape of
\* that type: a primitive of the type's kind, or an Object of that class
\* with one value per declared field, value i of the shape of field i.
RECURSIVE Conforms(_, _, _)
SingleConforms(v, f, pool) ==
    IF f.constant_pool
    THEN v.kind = "ConstantPool" /\ v.class_id = f.class_id
    ELSE Conforms(v, f.class_id, pool)

FieldConforms(v, f, pool) ==
    IF f.array_type
    THEN v.kind = "Array" /\ \A k \in 1..Len(v.elems) : SingleConforms(v.elems[k], f, pool)
    ELSE SingleConforms(v, f, pool)

PrimOfName(name) ==
    CASE name = T("int") -> {"Integer"} [] name = T("long") -> {"Long"}
      [] name = T("float") -> {"Float"} [] name = T("double") -> {"Double"}
      [] name = T("char") -> {"Character"} [] name = T("boolean") -> {"Boolean"}
      [] name = T("short") -> {"Short"} [] name = T("byte") -> {"Byte"}
      [] OTHER -> {"String", "NullString"}

Conforms(v, class_id, pool) ==
    /\ class_id \in DOMAIN pool
    /\ LET t == pool[class_id]
       IN  IF t.name \in PrimitiveNames
           THEN \/ v.kind = "Primitive" /\ v.prim \in PrimOfName(t.name)
                \/ t.name = T("java.lang.String") /\ v.kind = "ConstantPool"
           ELSE /\ v.kind = "Object"
                /\ v.class_id = class_id
                /\ Len(v.fields) = Len(t.fields)
                /\ \A i \in 1..Len(t.fields) : FieldConforms(v.fields[i], t.fields[i], pool)

\* C4: every Object the value decoder returns, at every depth, has a class
\* id that is declared in the type pool and holds exactly one value per
\* declared field of that type, value i decoded from declared field i.
C4_ObjectMatchesSchema ==
    (vdPc = "done" /\ vdResult.ok) => Conforms(vdResult.v, vdClass, VdPool)

\* An object with a nested object, a non-empty array and a reference has
\* been decoded.
C4_Witness ==
    /\ vdPc = "done"
    /\ vdResult.ok
    /\ vdClass = 4
    /\ vdResult.v.kind = "Object"
    /\ Len(vdResult.v.fields) = 3
    /\ Len(vdResult.v.fields[2].elems) > 0
    /\ vdResult.v.fields[3].kind = "Object"
    /\ Len(vdResult.v.fields[3].fields) = 2

\* Every ConstantPoolRef in a decoded value stands where the declaration
\* allows one: at a scalar or array element of a flagged field, carrying the
\* field's class id, or where the declared type is java.lang.String,
\* carrying that type's class id.
RECURSIVE RefsJustified(_, _, _)
SingleRefsJustified(v, f, pool) ==
    IF f.constant_pool
    THEN v.kind = "ConstantPool" => v.class_id = f.class_id
    ELSE RefsJustified(v, f.class_id, pool)

RefsJustified(v, class_id, pool) ==
    CASE v.kind = "ConstantPool" ->
            /\ class_id \in DOMAIN pool
            /\ pool[class_id].name = T("java.lang.String")
            /\ v.class_id = class_id
      [] v.kind = "Object" ->
            /\ v.class_id \in DOMAIN pool
            /\ \A i \in 1..Len(v.fields) :
                  /\ i <= Len(pool[v.class_id].fields)
                  /\ LET f == pool[v.class_id].fields[i]
                     IN  IF v.fields[i].kind = "Array"
                         THEN \A k \in 1..Len(v.fields[i].elems) :
                                  SingleRefsJustified(v.fields[i].elems[k], f, pool)
                         ELSE SingleRefsJustified(v.fields[i], f, pool)
      [] OTHER -> TRUE

\* C5: the value decoder emits a ConstantPoolRef only for a scalar or array
\* element of a field whose constant_pool flag is set (with the field's
\* class id and the i64 index read) or for a java.lang.String whose encoding
\* tag is the constant-pool tag (with java.lang.String's class id); a field
\* without the flag whose type is not java.lang.String never yields one.
C5_RefsOnlyWhereDeclared ==
    (vdPc = "done" /\ vdResult.ok) =>
        /\ RefsJustified(vdResult.v, vdClass, VdPool)
        \* a string reference comes from tag 2 and carries the index after it
        /\ (vdResult.v.kind = "ConstantPool" =>
                /\ vdStream.buf[1] = STRING_ENCODING_CONSTANT_POOL
                /\ vdResult.v.constant_index = vdStream.buf[2])
        \* the reference of a flagged scalar field carries the index read
        /\ (vdClass = 4 =>
                /\ vdResult.v.fields[1].kind = "ConstantPool"
                /\ vdResult.v.fields[1].constant_index = vdStream.buf[1])
        \* each element of a flagged array field carries the index read
        /\ (vdClass = 5 =>
                /\ Len(vdResult.v.fields[1].elems) = vdStream.buf[1]
                /\ \A k \in 1..Len(vdResult.v.fields[1].elems) :
                      /\ vdResult.v.fields[1].elems[k].kind = "ConstantPool"
                      /\ vdResult.v.fields[1].elems[k].constant_index = vdStream.buf[1 + k])

\* References of all three origins have been decoded: elements of a flagged
\* array, a flagged java.lang.String field, and (in another run) a string
\* with the constant-pool tag inside an unflagged field.
C5_Witness ==
    /\ vdPc = "done"
    /\ vdResult.ok
    /\ \/ /\ vdClass = 5
          /\ Len(vdResult.v.fields[1].elems) = 2
          /\ vdResult.v.fields[1].elems[2].kind = "ConstantPool"
          /\ vdResult.v.fields[2].kind = "ConstantPool"
          /\ vdResult.v.fields[2].class_id = 2
       \/ /\ vdClass = 3
          /\ vdResult.v.fields[1].kind = "ConstantPool"
          /\ vdResult.v.fields[1].class_id = 2

\* C29: value decoding returns, with a value or an error, for every type
\* pool and every input, a type that declares a field of its own type
\* without the constant_pool flag included: no call of try_new is nested in
\* a call for the same class at the same cursor.
C29_DecodingReturns ==
    vdPc = "done" => vdResult.err # "StackOverflow"

\* C6: read_i64 in Compressed mode, applied to the encoding of any signed
\* 64-bit x, returns x and leaves the cursor right after the encoded bytes,
\* of which there are at most nine; the bytes 0x85 0xB0 0x03 give 55301.
C6_VarintRoundTrip ==
    bsPc = "done" =>
        /\ bsResult.ok
        /\ bsResult.v = bsX
        /\ bsResult.s.pos = MinEncodedLen(bsX)
        /\ bsResult.s.pos <= 9
        /\ (bsX = <<5, 48, 3, 0, 0, 0, 0, 0, 0>>
                => /\ I64Encode(bsX, 3) = <<133, 176, 3>>
                   /\ I64ToInt(bsResult.v) = 55301)

\* A negative value (nine bytes, the ninth with its top bit set) has been
\* read back, with bytes left over in the source.
C6_Witness ==
    /\ bsPc = "done"
    /\ bsX[9] >= 128
    /\ bsResult.ok
    /\ bsResult.s.pos = 9
    /\ Len(bsStream.buf) > 9

\* The records of a layout that are neither metadata nor constant pool, in
\* file order, each with its body offset.
EiExpected(recs) ==
    SelectSeq([k \in 1..Len(recs) |-> [off |-> EiOffsetOf(recs, k), type |-> recs[k].type]],
              LAMBDA r : r.type \notin {0, 1})

EiWellFormed(recs) == \A k \in 1..Len(recs) : recs[k].wf

EiProduced == SelectSeq(eiItems, LAMBDA it : it.kind # "none")

\* C1: the event iterator visits the records at body offsets 0, size1,
\* size1 + size2, .., each turn moving the offset on by the size field of the
\* record whatever value decoding consumed; the items it produces are the
\* records whose type is neither 0 nor 1, in that order; no event of type 0
\* or 1 is produced; and next() returns none exactly when the offset has
\* reached chunk_size - 68.
C1_EventOrder ==
    \* each visit is where the size fields before it lead
    /\ \A k \in 1..Len(eiTrace) :
          eiTrace[k].off =
              IF k = 1 THEN 0
              ELSE IF eiTrace[k - 1].out = "torn" THEN eiTrace[k - 1].off
              ELSE U64AddI32(eiTrace[k - 1].off, eiTrace[k - 1].size)
    \* in a well-formed layout visit k is record k of the file
    /\ EiWellFormed(eiRecs) =>
          /\ Len(eiTrace) <= Len(eiRecs)
          /\ \A k \in 1..Len(eiTrace) :
                /\ eiTrace[k].off = EiOffsetOf(eiRecs, k)
                /\ eiTrace[k].size = eiRecs[k].size
                /\ eiTrace[k].type = eiRecs[k].type
                /\ k > 1 => eiTrace[k].off > eiTrace[k - 1].off
          \* and the items are its records of type other than 0 and 1, in order
          /\ Len(EiProduced) <= Len(EiExpected(eiRecs))
          /\ \A i \in 1..Len(EiProduced) :
                /\ EiProduced[i].off = EiExpected(eiRecs)[i].off
                /\ EiProduced[i].type = EiExpected(eiRecs)[i].type
          /\ \A i \in 1..Len(eiItems) :
                eiItems[i].kind = "none" => Len(EiProduced) = Len(EiExpected(eiRecs))
    \* a record of type 0 or 1 is never yielded
    /\ \A i \in 1..Len(eiItems) : eiItems[i].kind = "event" => eiItems[i].type \notin {0, 1}
    \* none is returned once the offset has reached the end of the body, and
    \* only then
    /\ \A i \in 1..Len(eiItems) :
          /\ eiItems[i].at >= eiEnd => eiItems[i].kind = "none"
          /\ eiItems[i].kind = "none" => eiItems[i].off >= eiEnd

\* A padded event, a constant-pool record and a second event have been
\* iterated to the end: two events, then none.
C1_Witness ==
    /\ eiRecs = <<Rec(11, <<7>>, <<9, 9>>), Rec(1, <<5>>, <<>>), Rec(16, <<>>, <<9>>)>>
    /\ Len(eiItems) = 3
    /\ eiItems[1].kind = "event" /\ eiItems[1].off = 0
    /\ eiItems[2].kind = "event" /\ eiItems[2].off = 8 /\ eiItems[2].type = 16
    /\ eiItems[3].kind = "none"
    /\ Len(eiTrace) = 3

\* C8: after the event iterator has yielded an error item, every later call
\* of next() returns none.
C8_ErrorEndsIteration ==
    \A i \in 1..Len(eiItems) : \A j \in (i + 1)..Len(eiItems) :
        eiItems[i].kind = "error" => eiItems[j].kind = "none"

\* C27: every turn of the loop of next() that reads a record header moves
\* the offset forward, whatever the size field holds, so that no record is
\* visited twice: a record of type 0 or 1 and size 0 does not keep the loop
\* at its offset, and a record of another type and size 0 is not yielded
\* again by the next call.
C27_OffsetIncreases ==
    \A k \in 2..Len(eiTrace) :
        eiTrace[k - 1].out \in {"continue", "event", "error"} =>
            eiTrace[k].off > eiTrace[k - 1].off

\* The value an Object holds for the first declared field of that name.
AcHeldField(obj, name) ==
    LET fields == VdPool[obj.class_id].fields
        idx == CHOOSE i \in 1..Len(fields) :
                   fields[i].name = name /\ \A j \in 1..(i - 1) : fields[j].name # name
    IN  obj.fields[idx]

AcHasField(obj, name) ==
    \E i \in 1..Len(VdPool[obj.class_id].fields) : VdPool[obj.class_id].fields[i].name = name

\* C9: get_field(name) on an Object whose named field holds a
\* ConstantPoolRef makes exactly one pool lookup and returns the entry of
\* that reference as it is, a ConstantPoolRef included, or nothing when the
\* pool has no such entry; no get_field makes more than two lookups, cycles
\* among the entries or not.
C9_GetFieldSingleLookup ==
    acLast.op = "get_field" =>
        /\ acLast.r.lookups <= 2
        /\ (/\ acLast.self.kind = "Object"
            /\ AcHasField(acLast.self, acLast.name)
            /\ AcHeldField(acLast.self, acLast.name).kind = "ConstantPool") =>
               LET ref == AcHeldField(acLast.self, acLast.name)
                   key == <<ref.class_id, ref.constant_index>>
               IN  /\ acLast.r.lookups = 1
                   /\ acLast.r.some <=> key \in DOMAIN acPool
                   /\ acLast.r.some => acLast.r.v = acPool[key]

\* get_field has returned a pool entry that is itself a reference, taken
\* from a pool whose entries <<3, 1>> and <<3, 2>> refer to each other.
C9_Witness ==
    /\ acLast.op = "get_field"
    /\ acLast.self.kind = "Object"
    /\ acLast.r.some
    /\ acLast.r.v = ConstantPoolRef(3, 2)
    /\ acLast.r.lookups = 1
    /\ <<3, 2>> \in DOMAIN acPool
    /\ acPool[<<3, 2>>] = ConstantPoolRef(3, 1)

\* C10: no accessor operation panics when a ConstantPoolRef names a key
\* that the constant pool does not hold; the miss comes back as None.
C10_NoPanicOnMiss ==
    /\ acPc # "panicked"
    /\ (/\ acLast.op \in {"get_resolved", "as_iter"}
        /\ acLast.self.kind = "ConstantPool"
        /\ <<acLast.self.class_id, acLast.self.constant_index>> \notin DOMAIN acPool) =>
           ~acLast.r.panicked /\ ~acLast.r.some

\* The value the events of a layout give a key: that of the last event in
\* the file that holds the key, and in it of the last constant under the key.
RECURSIVE CpLastIn(_, _, _)
CpLastIn(consts, key, i) ==
    IF i = 0 THEN [some |-> FALSE, val |-> 0]
    ELSE IF <<consts[i].class_id, consts[i].index>> = key
    THEN [some |-> TRUE, val |-> consts[i].val]
    ELSE CpLastIn(consts, key, i - 1)

\* The constants of an event, in the order they are written.
CpConstantsOf(pools) ==
    Flatten([i \in 1..Len(pools) |->
                [j \in 1..Len(pools[i].constants) |->
                    [class_id |-> pools[i].class_id, index |-> pools[i].constants[j].index,
                     val |-> pools[i].constants[j].val]]])

RECURSIVE CpMostRecent(_, _, _)
CpMostRecent(events, key, k) ==
    IF k = 0 THEN [some |-> FALSE, val |-> 0]
    ELSE LET c == CpConstantsOf(events[k])
         IN  IF CpLastIn(c, key, Len(c)).some THEN CpLastIn(c, key, Len(c))
             ELSE CpMostRecent(events, key, k - 1)

CpKeys == {<<1, 1>>, <<1, 2>>, <<10, 1>>}

\* The events of a layout that register a key.
CpHolders(events, key) ==
    {k \in 1..Len(events) :
        CpLastIn(CpConstantsOf(events[k]), key, Len(CpConstantsOf(events[k]))).some}

\* C7: a key registered by more than one constant-pool event of a chunk is
\* mapped, in the finished pool, to the value of the later event in the
\* file.
C7_LaterEventWins ==
    (cpPc = "done" /\ cpChain = "wf" /\ cpResult.ok) =>
        \A key \in CpKeys :
            Cardinality(CpHolders(cpEvents, key)) >= 2 =>
                /\ key \in DOMAIN cpResult.v
                /\ cpResult.v[key].val = CpMostRecent(cpEvents, key, Len(cpEvents)).val

\* The offsets of the events k, k - 1, .., downto of a layout.
RECURSIVE CpOffsetsDown(_, _, _)
CpOffsetsDown(events, k, downto) ==
    IF k < downto THEN <<>> ELSE <<CpOffsetOf(events, k)>> \o CpOffsetsDown(events, k - 1, downto)

\* C24: the construction of the constant pool visits the event at
\* constant_pool_offset first, then the event at the offset before plus its
\* delta, and stops right after the first event whose delta is 0; it visits
\* no event when constant_pool_offset is 0; an event whose type is not 1
\* ends it with InvalidFormat, so that there is no pool and no chunk.
C24_WalkOrder ==
    cpPc = "done" =>
        /\ cpOffset = 0 => cpResult.ok /\ cpResult.visited = <<>> /\ cpResult.v = <<>>
        /\ cpChain = "wf" =>
               cpResult.ok /\ cpResult.visited = CpOffsetsDown(cpEvents, Len(cpEvents), 1)
        /\ (cpChain = "short" /\ Len(cpEvents) >= 2) =>
               cpResult.ok /\ cpResult.visited = CpOffsetsDown(cpEvents, Len(cpEvents), 2)
        /\ (cpChain = "badtype" /\ Len(cpEvents) >= 1) =>
               /\ ~cpResult.ok
               /\ cpResult.err = "InvalidFormat"
               /\ cpResult.visited = CpOffsetsDown(cpEvents, Len(cpEvents), 1)

\* Three events of which the second has the delta 0: the third and the
\* second are visited, the first is not.
C24_Witness ==
    /\ cpPc = "done"
    /\ cpChain = "short"
    /\ Len(cpEvents) = 3
    /\ cpResult.ok
    /\ Len(cpResult.visited) = 2
    /\ cpResult.visited[1] = cpOffset
    /\ cpResult.visited[2] < cpOffset

\* C25: the construction of the constant pool ends for every chunk, with a
\* pool or an error, after finitely many events, and visits no event offset
\* twice, whatever the deltas of the events are.
C25_WalkEnds ==
    cpPc = "done" =>
        /\ cpResult.err # "Diverges"
        /\ \A i, j \in 1..Len(cpResult.visited) :
               i # j => cpResult.visited[i] # cpResult.visited[j]

----------------------------------------------------------------------------
(* The chunk iterator over a file of chunks.                               *)

\* The position of the call after the k-th: where the next item was read,
\* or the reader's chunk_start_position when the k-th call is the last.
ChNextAt(k) == IF k < Len(chItems) THEN chItems[k + 1].at ELSE chStart

\* C2: for a file of n well-formed chunks laid end to end the iterator
\* yields exactly the n chunks in file order and then none; the k-th chunk
\* is read at the sum of the sizes of the chunks before it, and after every
\* chunk yielded chunk_start_position has advanced by that chunk's size.
C2_ChunksInOrder ==
    /\ chDamage.kind = "none" =>
          \A k \in 1..Len(chItems) :
              IF k <= Len(chLayout)
              THEN /\ chItems[k].kind = "chunk"
                   /\ chItems[k].at = ChSizeSum(chLayout, k - 1)
                   /\ chItems[k].chunk_size = ChSizeOf(chLayout[k])
                   /\ chItems[k].ordinal = k
              ELSE chItems[k].kind = "none"
    /\ \A k \in 1..Len(chItems) :
          chItems[k].kind = "chunk" => ChNextAt(k) = chItems[k].at + chItems[k].chunk_size

\* A file of MaxChunks chunks, all of them yielded and none after them.
C2_Witness ==
    /\ chDamage.kind = "none"
    /\ Len(chLayout) = MaxChunks
    /\ Len(chItems) = MaxChunks + 1
    /\ chItems[MaxChunks].kind = "chunk"
    /\ chItems[MaxChunks].at > 0
    /\ chItems[MaxChunks + 1].kind = "none"

\* C3: next() returns none exactly when the first byte read at the chunk
\* start hits the end of the source; a source that ends inside a chunk, in
\* its magic or later, gives an error and not none.
C3_NoneIffEofAtStart ==
    \A k \in 1..Len(chItems) :
        /\ (chItems[k].kind = "none") <=> (chItems[k].at >= Len(chStream.buf))
        /\ (chDamage.kind = "cut" /\ chItems[k].at = ChSizeSum(chLayout, Len(chLayout) - 1))
               => chItems[k].kind = "error"

\* A source that ends inside the magic of its second chunk: the first chunk,
\* then errors.
C3_Witness ==
    /\ chDamage.kind = "cut"
    /\ chDamage.at \in 1..3
    /\ Len(chLayout) = 2
    /\ Len(chItems) >= 3
    /\ chItems[1].kind = "chunk"
    /\ chItems[2].kind = "error"
    /\ chItems[3].kind = "error"

\* The bytes of the source from `at`, n of them, or <<>> past its end.
ChBytesAt(at, n) ==
    IF at + n <= Len(chStream.buf) THEN SubSeq(chStream.buf, at + 1, at + n) ELSE <<>>

\* The i16 the source holds at `at`.
ChI16At(at) ==
    (CHOOSE the \in {(IF u >= 32768 THEN u - 65536 ELSE u)
    : u \in {chStream.buf[at + 1] * 256 + chStream.buf[at + 2]}} : TRUE)

\* The k-th call met the magic and a whole version field.
ChVersionRead(k) ==
    /\ ChBytesAt(chItems[k].at, 4) = MAGIC
    /\ chItems[k].at + 8 <= Len(chStream.buf)

\* C12: a chunk with a valid magic whose major version is neither 1 nor 2
\* gives the error item UnsupportedVersion carrying the (major, minor) read;
\* the source is left right after the version, so that neither the chunk
\* size nor anything after it was read, and chunk_start_position stays.
C12_UnsupportedMajor ==
    \A k \in 1..Len(chItems) :
        (ChVersionRead(k) /\ ChI16At(chItems[k].at + 4) \notin {1, 2}) =>
            /\ chItems[k].kind = "error"
            /\ chItems[k].err = "UnsupportedVersion"
            /\ chItems[k].carries = <<ChI16At(chItems[k].at + 4), ChI16At(chItems[k].at + 6)>>
            /\ chItems[k].pos = chItems[k].at + 8
            /\ ChNextAt(k) = chItems[k].at

\* The second chunk of a file has version 3.1: a chunk, then the error.
C12_Witness ==
    /\ chDamage = Damage("version", Version(3, 1))
    /\ Len(chLayout) = 2
    /\ Len(chItems) >= 2
    /\ chItems[1].kind = "chunk"
    /\ chItems[2].err = "UnsupportedVersion"
    /\ chItems[2].carries = <<3, 1>>

\* C13, as stated: a chunk is accepted only with version (1,0) or (2,0);
\* every other pair, those with major 1 or 2 and a minor other than 0
\* included, is rejected with UnsupportedVersion.
C13_OnlyMinorZero ==
    \A k \in 1..Len(chItems) :
        ChVersionRead(k) =>
            IF <<ChI16At(chItems[k].at + 4), ChI16At(chItems[k].at + 6)>> \in {<<1, 0>>, <<2, 0>>}
            THEN chItems[k].err # "UnsupportedVersion"
            ELSE chItems[k].kind = "error" /\ chItems[k].err = "UnsupportedVersion"

\* C13, amended: the major version alone decides.  A chunk is rejected
\* with UnsupportedVersion exactly when its major version is neither 1 nor
\* 2, and a well-formed chunk of major version 1 or 2 is accepted whatever
\* its minor version is.
C13_MajorDecides ==
    \A k \in 1..Len(chItems) :
        ChVersionRead(k) =>
            /\ (chItems[k].err = "UnsupportedVersion") <=> (ChI16At(chItems[k].at + 4) \notin {1, 2})
            /\ (chDamage.kind \in {"none", "version"} /\ ChI16At(chItems[k].at + 4) \in {1, 2})
                   => chItems[k].kind = "chunk"

\* The second chunk of a file has version 2.1 and is yielded.
C13_Witness ==
    /\ chDamage = Damage("version", Version(2, 1))
    /\ Len(chLayout) = 2
    /\ Len(chItems) >= 2
    /\ chItems[2].kind = "chunk"
    /\ ChI16At(chItems[2].at + 6) = 1

\* C14: when four bytes can be read at the chunk start and they are not the
\* magic, next() yields the error item InvalidFormat, neither none nor a
\* chunk; so does the first call on a file that does not start with the
\* magic.
C14_BadMagicIsInvalidFormat ==
    \A k \in 1..Len(chItems) :
        (chItems[k].at + 4 <= Len(chStream.buf) /\ ChBytesAt(chItems[k].at, 4) # MAGIC) =>
            /\ chItems[k].kind = "error"
            /\ chItems[k].err = "InvalidFormat"

\* A file of one chunk whose magic is wrong in its last byte: the first
\* call yields the error.
C14_Witness ==
    /\ chDamage = Damage("magic", 3)
    /\ Len(chLayout) = 1
    /\ Len(chItems) >= 1
    /\ chItems[1].at = 0
    /\ chItems[1].err = "InvalidFormat"

\* The header the k-th chunk of the file was written with.
ChHeaderOf(k) ==
    (CHOOSE the \in {ChunkHeader(ChSizeOf(chLayout[k]),
                                 IF t.pools = <<>> THEN 0 ELSE HEADER_SIZE,
                                 ChSizeOf(chLayout[k]) - Len(MdEventBytes(t.enc, t.strings, t.root)),
                                 k, 0, 0, 1, t.features)
    : t \in {ChTemplates[chLayout[k]]}} : TRUE)

\* C15: in a file of well-formed chunks the version, the chunk size and
\* the header fields of every chunk are read as raw big-endian integers,
\* whatever the chunk before it was, and the body of a chunk is read with
\* variable-length integers iff bit 0 of its own features is set: every
\* chunk comes out with the header, the classes and the constants it was
\* written with.
C15_EncodingPerChunk ==
    chDamage.kind = "none" =>
        \A k \in 1..Len(chItems) :
            k <= Len(chLayout) =>
                /\ chItems[k].kind = "chunk"
                /\ chItems[k].header = ChHeaderOf(k)
                /\ chItems[k].encoding = (IF ChTemplates[chLayout[k]].features % 2 = 1 THEN "Compressed" ELSE "Raw")
                /\ chItems[k].classes = ChTemplates[chLayout[k]].classes
                /\ chSkip \/ chItems[k].constants = ChTemplates[chLayout[k]].constants

\* A chunk of raw integers read after a chunk of compressed integers, and
\* a file where the order is the other way round.
C15_Witness ==
    /\ chDamage.kind = "none"
    /\ ~chSkip
    /\ Len(chLayout) = 2
    /\ Len(chItems) >= 2
    /\ chItems[1].kind = "chunk"
    /\ chItems[2].kind = "chunk"
    /\ chItems[1].encoding = "Compressed"
    /\ chItems[2].encoding = "Raw"
    /\ chItems[2].header.features = 2

\* What chunks() returns to a call at the position of the last call, and
\* where it leaves chunk_start_position.
ChLast == chItems[Len(chItems)]

ChOfChunks == internal_next(chStream, ChLast.at, FALSE)

\* C16, as stated: for the same file chunk_metadata() yields what chunks()
\* yields, call by call: the same chunks in the same order with the same
\* header and type pool, or the same error or none, and chunk_start_position
\* advances alike; only the constant pool of its chunks is empty.
C16_SameAsChunks ==
    (chSkip /\ chItems # <<>>) =>
        (CHOOSE the \in {(/\ ChLast = [ChItem(o, ChLast.at) EXCEPT !.constants = <<>>]
                          /\ chStart = o.chunk_start_position)
        : o \in {ChOfChunks}} : TRUE)

\* C16, amended: where chunks() yields a chunk, chunk_metadata() yields the
\* same chunk (header, type pool, position after it) with an empty constant
\* pool; where chunks() yields none, it yields none; where chunks() yields
\* an error, it yields the same error, unless the error comes from reading
\* the constant pool: then chunk_metadata() yields the chunk and moves on.
C16_SameUpToPoolErrors ==
    (chSkip /\ chItems # <<>>) =>
        (CHOOSE the \in {(IF o.out = "error" /\ ChLast.kind = "chunk"
                          THEN /\ chDamage.kind = "pool"
                               /\ ChLast.constants = <<>>
                               /\ chStart = ChLast.at + ChLast.chunk_size
                          ELSE /\ ChLast = [ChItem(o, ChLast.at) EXCEPT !.constants = <<>>]
                               /\ chStart = o.chunk_start_position)
        : o \in {ChOfChunks}} : TRUE)

\* chunk_metadata() over a file of two chunks that hold constants: both
\* chunks, without constants, then none.
C16_Witness ==
    /\ chSkip
    /\ chDamage.kind = "none"
    /\ chLayout = <<"ints", "tick">>
    /\ Len(chItems) = 3
    /\ chItems[1].kind = "chunk" /\ chItems[1].constants = <<>>
    /\ chItems[2].kind = "chunk" /\ chItems[2].constants = <<>>
    /\ chItems[2].classes = {1, 7, 20}
    /\ chItems[3].kind = "none"

\* C28: when next() yields an error, whatever the error is,
\* chunk_start_position stays where it was: the call after it reads at the
\* same position and yields the same error again, neither a later chunk nor
\* none.
C28_ErrorStays ==
    \A k \in 1..Len(chItems) :
        chItems[k].kind = "error" =>
            /\ ChNextAt(k) = chItems[k].at
            /\ k < Len(chItems) =>
                   /\ chItems[k + 1].kind = "error"
                   /\ chItems[k + 1].err = chItems[k].err

\* A file of two chunks, the second with a constant pool that cannot be
\* read: the first chunk, then the error at the second chunk twice.
C28_Witness ==
    /\ chDamage.kind = "pool"
    /\ ~chSkip
    /\ Len(chLayout) = 2
    /\ Len(chItems) >= 3
    /\ chItems[1].kind = "chunk"
    /\ chItems[2].kind = "error"
    /\ chItems[3].kind = "error"
    /\ chItems[3].at = chItems[2].at
    /\ chItems[2].at > 0

\* The position of the last chunk of the file.
ChLastChunkAt == ChSizeSum(chLayout, Len(chLayout) - 1)

----------------------------------------------------------------------------
(* Deserialization of values.                                              *)

\* The value is a null string, stored inline or as the pool entry its
\* reference resolves to.
IsNullString(value) == value.kind = "Primitive" /\ value.prim = "NullString"

DeIsNullString ==
    \/ IsNullString(deValue)
    \/ /\ deValue.kind = "ConstantPool"
       /\ <<deValue.class_id, deValue.constant_index>> \in DOMAIN dePool
       /\ IsNullString(dePool[<<deValue.class_id, deValue.constant_index>>])

\* C11: deserializing a value returns a result or an error for every
\* constant pool, those with entries that refer back to a key already
\* visited included.
C11_DeserializeReturns ==
    dePc = "done" => deResult.out # "diverges"

\* C17: a null string deserialized into an optional target is absent and
\* into any other target fails with DeserializeError, whether it stands
\* inline in the value or is the pool entry a reference resolves to.
C17_NullStringAbsentOrError ==
    (dePc = "done" /\ DeIsNullString) =>
        IF deTarget.t = "option" THEN deResult.out = "ok" /\ ~deResult.v.some
        ELSE deResult.out = "err" /\ deResult.kind = "DeserializeError"

\* The value is a reference to an entry the pool does not hold.
DeIsMissing ==
    /\ deValue.kind = "ConstantPool"
    /\ <<deValue.class_id, deValue.constant_index>> \notin DOMAIN dePool

\* C18: a reference to an entry missing from the constant pool fails with
\* a DeserializeError naming the class_id and the index when deserialized
\* into a target that is not optional, and is absent when deserialized into
\* an optional one; no value is made up and nothing panics.
C18_MissingEntry ==
    (dePc = "done" /\ DeIsMissing) =>
        IF deTarget.t = "option" THEN deResult.out = "ok" /\ ~deResult.v.some
        ELSE /\ deResult.out = "err"
             /\ deResult.kind = "DeserializeError"
             /\ deResult.msg = <<"Not found in constant pool", deValue.class_id, deValue.constant_index>>

\* A reference to a thread that the pool, which holds other entries, does
\* not hold, deserialized into a map.
C18_Witness ==
    /\ dePc = "done"
    /\ DeIsMissing
    /\ deValue.class_id = 3
    /\ DOMAIN dePool = {<<2, 1>>, <<2, 2>>}
    /\ deTarget.t = "map"
    /\ deResult.out = "err"
    /\ deResult.msg = <<"Not found in constant pool", 3, 1>>

\* C19: every failure of a deserialization is the error DeserializeError
\* with a message: an object of a class without a TypeDescriptor when the
\* keys of the map are produced, a reference to a missing pool entry, and a
\* primitive that does not fit the target alike.
C19_OnlyDeserializeError ==
    (dePc = "done" /\ deResult.out = "err") => deResult.kind = "DeserializeError"

----------------------------------------------------------------------------
(* Strings.                                                                *)

\* C20: read_string on the bytes of a string value returns that value,
\* for each of the six tags: Null for 0, Empty for 1, ConstantPool(index)
\* with the index read as an i64 in the current integer encoding for 2, and
\* the text of the UTF-8 bytes, of the 16-bit code units and of the Latin-1
\* bytes for 3, 4 and 5; the bytes of the value, and no more, are consumed.
C20_StringRoundTrip ==
    stPc = "done" =>
        /\ stResult.ok
        /\ stResult.v = StValue(stCase)
        /\ stResult.s.pos = Len(StEncode(stStream.enc, stCase))

\* C26: in a char array (tag 4) every code unit is an unsigned 16-bit
\* value: a code unit in 0x8000..0xFFFF that is not a surrogate reads as the
\* character of that code point, like the code units below 0x8000, in both
\* integer encodings.
C26_CodeUnitsUnsigned ==
    (/\ stPc = "done"
     /\ stCase.tag = STRING_ENCODING_CHAR_ARRAY
     /\ \A i \in 1..Len(stCase.text) : stCase.text[i] \notin 55296..57343) =>
        /\ stResult.ok
        /\ stResult.v.st = "Raw"
        /\ stResult.v.text = stCase.text


\* The case at hand without its stray.
MdWithoutStray(case) == [case EXCEPT !.stray = MdNoStray]

\* Parent <- child acceptance of the element tree.
MdAccepted ==
    {<<"root", "metadata">>, <<"root", "region">>, <<"metadata", "class">>,
     <<"class", "field">>, <<"class", "annotation">>, <<"class", "setting">>,
     <<"field", "annotation">>, <<"setting", "annotation">>}

\* C21: decoding the metadata fails with InvalidFormat when a class element
\* lacks its `id` or its `name` attribute, or a field element lacks its `name`
\* or its `class` attribute; no descriptor is produced with a class id that
\* stands for an absent attribute.
C21_MissingAttributeFails ==
    (/\ mdPc = "done"
     /\ mdCase.stray.name = "none"
     /\ \/ mdCase.class_attrs # {"id", "name"}
        \/ mdCase.field_attrs # {"name", "class"}) =>
        /\ ~mdResult.ok
        /\ mdResult.err = "InvalidFormat"

\* An element of an unknown name, at any depth, fails the decoding with
\* InvalidFormat.
MdUnknownNameFails ==
    (/\ mdPc = "done"
     /\ "bogus" \in {mdCase.stray.name, mdCase.stray.inner}) =>
        /\ ~mdResult.ok
        /\ mdResult.err = "InvalidFormat"

\* C22: an element of an unknown name fails the decoding with InvalidFormat
\* at any depth, also inside a subtree that is dropped; an element of a known
\* name under a parent that does not accept it is read and dropped, and the
\* elements after it decode as if it were not there.
C22_DroppedAsIfAbsent ==
    /\ MdUnknownNameFails
    /\ (/\ mdPc = "done"
        /\ mdCase.stray.name \in MdNames
        /\ mdCase.stray.inner = "none"
        /\ <<mdCase.stray.parent, mdCase.stray.name>> \notin MdAccepted) =>
           (CHOOSE the \in {(/\ mdResult.ok = without.ok
                             /\ mdResult.err = without.err
                             /\ mdResult.ok => mdResult.v.type_pool = without.v.type_pool)
            : without \in {Metadata_try_new(
                               ByteStream_new(MdBytes(MdWithoutStray(mdCase))), MdHeader)}}
            : TRUE)

\* The names of the descriptors of a type pool, each with the entry of the
\* string table that holds it.
MdNamesIn(type_pool) ==
    {<<type_pool[id].name, type_pool[id].name_index>> : id \in DOMAIN type_pool}
    \cup UNION {{<<type_pool[id].fields[i].name, type_pool[id].fields[i].name_index>>
                    : i \in 1..Len(type_pool[id].fields)} : id \in DOMAIN type_pool}

\* C23: two descriptors of a chunk's metadata whose names are the same text
\* hold the same string of the string table, also when the table holds that
\* text at two indexes.
C23_EqualNamesShareStorage ==
    (mdPc = "done" /\ mdResult.ok) =>
        \A a \in MdNamesIn(mdResult.v.type_pool), b \in MdNamesIn(mdResult.v.type_pool) :
            a[1] = b[1] => a[2] = b[2]

============================================================================
